---- MODULE Spec2Model ----
(***************************************************************************)
(* Model of the frontend HTTP layer of meta-stack:                         *)
(*   - the error normalizer  handleApiError  (lib/api/errors/handler.ts),  *)
(*     with the message registry and the status table (errors/messages.ts),*)
(*   - the shared axios instance, its two interceptors and customInstance, *)
(*   - the config sanitizer  sanitizeAxiosConfig / stripFunctionsFromParams.*)
(* Texts are sequences of one-character strings so that toLowerCase,       *)
(* includes, slice and join are computed rather than assumed.              *)
(***************************************************************************)
EXTENDS Integers, Sequences, FiniteSets, TLC

\* ------------------------------------------------------------------ texts
\* Sample texts that occur as server messages, transport messages and
\* validation messages.
TInvalidPassword == <<"I","n","v","a","l","i","d"," ","p","a","s","s","w","o","r","d">>
TIncorrectPin == <<"I","n","c","o","r","r","e","c","t"," ","P","I","N">>
TWrongCode == <<"W","R","O","N","G"," ","c","o","d","e">>
TTokenExpired == <<"T","o","k","e","n"," ","e","x","p","i","r","e","d">>
TExpiredOrInvalid == <<"e","x","p","i","r","e","d"," ","o","r"," ","i","n","v","a","l","i","d">>
TSessionExpires == <<"S","e","s","s","i","o","n"," ","e","x","p","i","r","e","s"," ","s","o","o","n">>
TAccessDenied == <<"A","c","c","e","s","s"," ","d","e","n","i","e","d">>
TInvalidEmail == <<"i","n","v","a","l","i","d"," ","e","m","a","i","l">>
TFieldRequired == <<"f","i","e","l","d"," ","r","e","q","u","i","r","e","d">>
TTimeoutExceeded == <<"t","i","m","e","o","u","t"," ","o","f"," ","3","0","0","0","0","m","s"," ","e","x","c","e","e","d","e","d">>
TCanceled == <<"c","a","n","c","e","l","e","d">>
TQueryCancelled == <<"Q","u","e","r","y"," ","w","a","s"," ","c","a","n","c","e","l","l","e","d">>
TNetworkError == <<"N","e","t","w","o","r","k"," ","E","r","r","o","r">>
TRequestFailed == <<"R","e","q","u","e","s","t"," ","f","a","i","l","e","d">>
TBadConfig == <<"I","n","v","a","l","i","d"," ","U","R","L">>
TBoom == <<"b","o","o","m">>
TInvalidPasswordLc == <<"i","n","v","a","l","i","d"," ","p","a","s","s","w","o","r","d">>
TTimeoutCaps == <<"T","i","m","e","o","u","t">>

\* Literals of the source.
W_invalid == <<"i","n","v","a","l","i","d">>
W_incorrect == <<"i","n","c","o","r","r","e","c","t">>
W_wrong == <<"w","r","o","n","g">>
W_expired == <<"e","x","p","i","r","e","d">>
W_timeout == <<"t","i","m","e","o","u","t">>
W_unknown == <<"u","n","k","n","o","w","n">>
W_ValidationError == <<"V","a","l","i","d","a","t","i","o","n"," ","e","r","r","o","r">>
SepComma == <<","," ">>
SepDot == <<".">>
W_Bearer == <<"B","e","a","r","e","r"," ">>
TBasic == <<"B","a","s","i","c"," ","x">>
Digits == <<"1","2","3","4","5","6","7","8","9">>
L_body == <<"b","o","d","y">>
L_email == <<"e","m","a","i","l">>
L_user == <<"u","s","e","r">>
L_name == <<"n","a","m","e">>
TValueError == <<"v","a","l","u","e","_","e","r","r","o","r">>
TMissing == <<"m","i","s","s","i","n","g">>
TUrl == <<"/","u","s","e","r","s">>
TRid == <<"r","e","q","-","1">>
TCid == <<"c","o","r","r","-","9">>

UpperChars == <<"A","B","C","D","E","F","G","H","I","J","K","L","M","N","O","P","Q","R","S","T","U","V","W","X","Y","Z">>
LowerChars == <<"a","b","c","d","e","f","g","h","i","j","k","l","m","n","o","p","q","r","s","t","u","v","w","x","y","z">>

\* String.prototype.toLowerCase on one character.
LowerChar(c) ==
  IF \E i \in 1..Len(UpperChars) : UpperChars[i] = c
  THEN LowerChars[CHOOSE i \in 1..Len(UpperChars) : UpperChars[i] = c]
  ELSE c

\* String.prototype.toLowerCase
ToLower(s) == [i \in 1..Len(s) |-> LowerChar(s[i])]

\* String.prototype.includes (case-sensitive substring test)
Includes(s, sub) ==
  \E i \in 0..(Len(s) - Len(sub)) : SubSeq(s, i + 1, i + Len(sub)) = sub

\* Array.prototype.join over a sequence of texts
RECURSIVE Join(_, _)
Join(parts, sep) ==
  IF Len(parts) = 0 THEN <<>>
  ELSE IF Len(parts) = 1 THEN parts[1]
  ELSE parts[1] \o sep \o Join(Tail(parts), sep)

\* ------------------------------------------------------------- JS values
\* A JavaScript value as far as the handler distinguishes it: undefined,
\* a string (v is its text) or a truthy non-string (v is its String() form).
Undef == [k |-> "undef", v |-> <<>>]
Str(t) == [k |-> "str", v |-> t]
Num == [k |-> "num", v |-> <<"5">>]

\* JavaScript truthiness
Truthy(x) == x.k = "num" \/ (x.k = "str" /\ x.v # <<>>)

\* a || b
OrElse(a, b) == IF Truthy(a) THEN a ELSE b

\* ------------------------------------------------- taxonomy and registry
ApiErrorCode ==
  { "NETWORK_ERROR", "TIMEOUT", "REQUEST_CANCELLED",
    "UNAUTHORIZED", "FORBIDDEN", "TOKEN_EXPIRED", "INVALID_CREDENTIALS",
    "VALIDATION_ERROR", "INVALID_INPUT", "MISSING_REQUIRED_FIELD",
    "NOT_FOUND", "CONFLICT", "ALREADY_EXISTS",
    "INTERNAL_SERVER_ERROR", "SERVICE_UNAVAILABLE", "BAD_GATEWAY",
    "BUSINESS_ERROR", "OPERATION_NOT_ALLOWED", "UNKNOWN_ERROR" }

ERROR_MESSAGES ==
  [ NETWORK_ERROR |-> <<"U","n","a","b","l","e"," ","t","o"," ","c","o","n","n","e","c","t"," ","t","o"," ","t","h","e"," ","s","e","r","v","e","r","."," ","P","l","e","a","s","e"," ","c","h","e","c","k"," ","y","o","u","r"," ","i","n","t","e","r","n","e","t"," ","c","o","n","n","e","c","t","i","o","n"," ","a","n","d"," ","t","r","y"," ","a","g","a","i","n",".">>,
    TIMEOUT |-> <<"T","h","e"," ","r","e","q","u","e","s","t"," ","t","o","o","k"," ","t","o","o"," ","l","o","n","g"," ","t","o"," ","c","o","m","p","l","e","t","e","."," ","P","l","e","a","s","e"," ","t","r","y"," ","a","g","a","i","n",".">>,
    REQUEST_CANCELLED |-> <<"T","h","e"," ","r","e","q","u","e","s","t"," ","w","a","s"," ","c","a","n","c","e","l","l","e","d",".">>,
    UNAUTHORIZED |-> <<"Y","o","u","r"," ","s","e","s","s","i","o","n"," ","h","a","s"," ","e","x","p","i","r","e","d","."," ","P","l","e","a","s","e"," ","s","i","g","n"," ","i","n"," ","a","g","a","i","n",".">>,
    FORBIDDEN |-> <<"Y","o","u"," ","d","o"," ","n","o","t"," ","h","a","v","e"," ","p","e","r","m","i","s","s","i","o","n"," ","t","o"," ","p","e","r","f","o","r","m"," ","t","h","i","s"," ","a","c","t","i","o","n",".">>,
    TOKEN_EXPIRED |-> <<"Y","o","u","r"," ","s","e","s","s","i","o","n"," ","h","a","s"," ","e","x","p","i","r","e","d","."," ","P","l","e","a","s","e"," ","s","i","g","n"," ","i","n"," ","a","g","a","i","n",".">>,
    INVALID_CREDENTIALS |-> <<"I","n","v","a","l","i","d"," ","e","m","a","i","l"," ","o","r"," ","p","a","s","s","w","o","r","d","."," ","P","l","e","a","s","e"," ","t","r","y"," ","a","g","a","i","n",".">>,
    VALIDATION_ERROR |-> <<"P","l","e","a","s","e"," ","c","h","e","c","k"," ","y","o","u","r"," ","i","n","p","u","t"," ","a","n","d"," ","c","o","r","r","e","c","t"," ","a","n","y"," ","e","r","r","o","r","s",".">>,
    INVALID_INPUT |-> <<"T","h","e"," ","p","r","o","v","i","d","e","d"," ","d","a","t","a"," ","i","s"," ","i","n","v","a","l","i","d",".">>,
    MISSING_REQUIRED_FIELD |-> <<"P","l","e","a","s","e"," ","f","i","l","l"," ","i","n"," ","a","l","l"," ","r","e","q","u","i","r","e","d"," ","f","i","e","l","d","s",".">>,
    NOT_FOUND |-> <<"T","h","e"," ","r","e","q","u","e","s","t","e","d"," ","r","e","s","o","u","r","c","e"," ","w","a","s"," ","n","o","t"," ","f","o","u","n","d",".">>,
    CONFLICT |-> <<"T","h","i","s"," ","o","p","e","r","a","t","i","o","n"," ","c","o","n","f","l","i","c","t","s"," ","w","i","t","h"," ","e","x","i","s","t","i","n","g"," ","d","a","t","a","."," ","P","l","e","a","s","e"," ","r","e","f","r","e","s","h"," ","a","n","d"," ","t","r","y"," ","a","g","a","i","n",".">>,
    ALREADY_EXISTS |-> <<"T","h","i","s"," ","i","t","e","m"," ","a","l","r","e","a","d","y"," ","e","x","i","s","t","s",".">>,
    INTERNAL_SERVER_ERROR |-> <<"S","o","m","e","t","h","i","n","g"," ","w","e","n","t"," ","w","r","o","n","g"," ","o","n"," ","o","u","r"," ","e","n","d","."," ","P","l","e","a","s","e"," ","t","r","y"," ","a","g","a","i","n"," ","l","a","t","e","r",".">>,
    SERVICE_UNAVAILABLE |-> <<"T","h","e"," ","s","e","r","v","i","c","e"," ","i","s"," ","t","e","m","p","o","r","a","r","i","l","y"," ","u","n","a","v","a","i","l","a","b","l","e","."," ","P","l","e","a","s","e"," ","t","r","y"," ","a","g","a","i","n"," ","l","a","t","e","r",".">>,
    BAD_GATEWAY |-> <<"U","n","a","b","l","e"," ","t","o"," ","r","e","a","c","h"," ","t","h","e"," ","s","e","r","v","e","r","."," ","P","l","e","a","s","e"," ","t","r","y"," ","a","g","a","i","n"," ","l","a","t","e","r",".">>,
    BUSINESS_ERROR |-> <<"T","h","e"," ","o","p","e","r","a","t","i","o","n"," ","c","o","u","l","d"," ","n","o","t"," ","b","e"," ","c","o","m","p","l","e","t","e","d",".">>,
    OPERATION_NOT_ALLOWED |-> <<"T","h","i","s"," ","o","p","e","r","a","t","i","o","n"," ","i","s"," ","n","o","t"," ","a","l","l","o","w","e","d",".">>,
    UNKNOWN_ERROR |-> <<"A","n"," ","u","n","e","x","p","e","c","t","e","d"," ","e","r","r","o","r"," ","o","c","c","u","r","r","e","d","."," ","P","l","e","a","s","e"," ","t","r","y"," ","a","g","a","i","n",".">> ]

HTTP_STATUS_TO_ERROR_CODE ==
  [ s \in {400, 401, 403, 404, 409, 422, 429, 500, 502, 503, 504} |->
      CASE s = 400 -> "VALIDATION_ERROR"
        [] s = 401 -> "UNAUTHORIZED"
        [] s = 403 -> "FORBIDDEN"
        [] s = 404 -> "NOT_FOUND"
        [] s = 409 -> "CONFLICT"
        [] s = 422 -> "VALIDATION_ERROR"
        [] s = 429 -> "SERVICE_UNAVAILABLE"
        [] s = 500 -> "INTERNAL_SERVER_ERROR"
        [] s = 502 -> "BAD_GATEWAY"
        [] s = 503 -> "SERVICE_UNAVAILABLE"
        [] s = 504 -> "TIMEOUT" ]

\* ERROR_MESSAGES[code] || ERROR_MESSAGES[UNKNOWN_ERROR]
getErrorMessage(code) ==
  IF code \in DOMAIN ERROR_MESSAGES /\ ERROR_MESSAGES[code] # <<>>
  THEN ERROR_MESSAGES[code]
  ELSE ERROR_MESSAGES["UNKNOWN_ERROR"]

\* HTTP_STATUS_TO_ERROR_CODE[status] || UNKNOWN_ERROR
getErrorCodeFromStatus(status) ==
  IF status \in DOMAIN HTTP_STATUS_TO_ERROR_CODE
  THEN HTTP_STATUS_TO_ERROR_CODE[status]
  ELSE "UNKNOWN_ERROR"

\* ------------------------------------------------------ response bodies
\* loc of one validation entry: undefined, an array of texts, or (off the
\* contract) a plain string.
NoLoc == [k |-> "undef", v |-> <<>>]
LocArr(p) == [k |-> "arr", v |-> p]
LocStr(p) == [k |-> "str", v |-> p]

\* One element of a detail array: null, or an object {loc?, msg?, type?}.
NullElem == [k |-> "null", loc |-> NoLoc, msg |-> Undef, type |-> Undef]
Elem(loc, msg, type) == [k |-> "obj", loc |-> loc, msg |-> msg, type |-> type]

\* body.detail: undefined, a string, an array, or an object map whose
\* entries are kept in Object.entries order.
NoDetail == [k |-> "undef", v |-> <<>>, elems |-> <<>>, entries |-> <<>>]
DetailStr(t) == [k |-> "str", v |-> t, elems |-> <<>>, entries |-> <<>>]
DetailArr(es) == [k |-> "arr", v |-> <<>>, elems |-> es, entries |-> <<>>]
DetailMap(en) == [k |-> "map", v |-> <<>>, elems |-> <<>>, entries |-> en]

\* response.data: undefined, a string, a number, or an object.
NoBody == [k |-> "undef", v |-> <<>>, message |-> Undef, detail |-> NoDetail]
BodyStr(t) == [k |-> "str", v |-> t, message |-> Undef, detail |-> NoDetail]
BodyNum == [k |-> "num", v |-> <<"5">>, message |-> Undef, detail |-> NoDetail]
BodyObj(m, d) == [k |-> "obj", v |-> <<>>, message |-> m, detail |-> d]

\* !detail
DetailFalsy(d) == d.k = "undef" \/ (d.k = "str" /\ d.v = <<>>)

\* !data
BodyFalsy(b) == b.k = "undef" \/ (b.k = "str" /\ b.v = <<>>)

\* (data as ApiErrorResponse)?.detail
DetailOf(data) == IF data.k = "obj" THEN data.detail ELSE NoDetail

\* A value that a helper returns, or the fact that it threw a TypeError.
Threw == [k |-> "throw", v |-> <<>>]

\* ------------------------------------------------------ handler helpers
\* detail.map(e => e.msg).filter(Boolean): reading .msg of null throws.
RECURSIVE TruthyMsgs(_)
TruthyMsgs(es) ==
  IF Len(es) = 0 THEN <<>>
  ELSE IF Truthy(es[1].msg) THEN <<es[1].msg.v>> \o TruthyMsgs(Tail(es))
  ELSE TruthyMsgs(Tail(es))

HasNullElem(es) == \E i \in 1..Len(es) : es[i].k = "null"

extractErrorMessage(data) ==
  IF BodyFalsy(data) THEN Str(<<>>)
  ELSE IF data.k = "str" THEN Str(data.v)
  ELSE IF data.k # "obj" THEN Str(<<>>)
  ELSE IF Truthy(data.message) THEN data.message
  ELSE IF ~DetailFalsy(data.detail) /\ data.detail.k = "str"
       THEN Str(data.detail.v)
  ELSE IF ~DetailFalsy(data.detail) /\ data.detail.k = "arr"
       THEN IF HasNullElem(data.detail.elems) THEN Threw
            ELSE Str(Join(TruthyMsgs(data.detail.elems), SepComma))
  ELSE Str(<<>>)

\* Array.prototype.slice(1)
Slice1(a) == IF Len(a) = 0 THEN <<>> ELSE Tail(a)

\* err.loc?.slice(1).join(".") || "unknown"; a string loc has no join.
FieldOfLoc(loc) ==
  IF loc.k = "undef" THEN Str(W_unknown)
  ELSE IF loc.k = "str" THEN Threw
  ELSE OrElse(Str(Join(Slice1(loc.v), SepDot)), Str(W_unknown))

ValidationEntry(err) ==
  [ field |-> FieldOfLoc(err.loc).v,
    message |-> OrElse(err.msg, Str(W_ValidationError)).v,
    code |-> err.type ]

MapEntry(en) == [ field |-> en.field, message |-> en.message, code |-> Undef ]

NoValidationErrors == [k |-> "undef", items |-> <<>>]
ThrewValidationErrors == [k |-> "throw", items |-> <<>>]

extractValidationErrors(detail) ==
  IF DetailFalsy(detail) THEN NoValidationErrors
  ELSE IF detail.k = "arr"
       THEN IF \E i \in 1..Len(detail.elems) :
                 \/ detail.elems[i].k = "null"
                 \/ FieldOfLoc(detail.elems[i].loc) = Threw
            THEN ThrewValidationErrors
            ELSE [ k |-> "list",
                   items |-> [i \in 1..Len(detail.elems) |->
                                ValidationEntry(detail.elems[i])] ]
  ELSE IF detail.k = "map"
       THEN [ k |-> "list",
              items |-> [i \in 1..Len(detail.entries) |->
                           MapEntry(detail.entries[i])] ]
  ELSE NoValidationErrors

\* The 401 override of determineErrorCode, on the extracted message.
CodeFor401(message) ==
  IF \/ Includes(message, W_invalid)
     \/ Includes(message, W_incorrect)
     \/ Includes(message, W_wrong)
  THEN "INVALID_CREDENTIALS"
  ELSE IF Includes(message, W_expired) THEN "TOKEN_EXPIRED"
  ELSE getErrorCodeFromStatus(401)

\* determineErrorCode(status, data); "THROW" when .toLowerCase() is applied
\* to a non-string message or when the extraction itself threw.
determineErrorCode(status, data) ==
  IF status # 0 /\ status \in DOMAIN HTTP_STATUS_TO_ERROR_CODE
  THEN IF status = 401
       THEN LET m == extractErrorMessage(data) IN
            IF m.k # "str" THEN "THROW"
            ELSE CodeFor401(ToLower(m.v))
       ELSE getErrorCodeFromStatus(status)
  ELSE "UNKNOWN_ERROR"

\* ------------------------------------------------------------ failures
\* Response headers the handler reads.
Headers(rid, cid) == [rid |-> rid, cid |-> cid]
NoHeaders == Headers(Undef, Undef)

\* error.response
NoResponse ==
  [present |-> FALSE, status |-> 0, data |-> NoBody, headers |-> NoHeaders]
Response(status, data, headers) ==
  [present |-> TRUE, status |-> status, data |-> data, headers |-> headers]

\* The value handed to handleApiError, as far as it is inspected:
\*   isObject      typeof error === "object" && error !== null
\*   isError       error instanceof Error
\*   isAxiosError  the isAxiosError property is true
\*   request       error.request is truthy
\*   config        error.config is truthy
Failure(isObject, isError, name, message, isAx, response, request, code, config) ==
  [ isObject |-> isObject, isError |-> isError, name |-> name,
    message |-> message, isAxiosError |-> isAx, response |-> response,
    request |-> request, code |-> code, config |-> config ]

\* Type guard isAxiosError(error)
isAxiosError(error) == error.isObject /\ error.isAxiosError

\* new ApiError({...}); String(message) is what Error stores.
ApiError(message, code, statusCode, originalError, details, validationErrors, requestId) ==
  [ threw |-> FALSE, message |-> message.v, code |-> code,
    statusCode |-> statusCode, originalError |-> originalError,
    details |-> details, validationErrors |-> validationErrors,
    requestId |-> requestId ]

NoDetails == [raw |-> FALSE, data |-> NoBody, present |-> FALSE]

\* typeof data === "object" ? data : { raw: data }
DetailsOf(data) == [raw |-> data.k # "obj", data |-> data, present |-> TRUE]

\* The outcome "handleApiError itself threw a TypeError".
HandlerThrew(error) ==
  [ threw |-> TRUE, message |-> <<>>, code |-> "THROW", statusCode |-> 0,
    originalError |-> error, details |-> NoDetails,
    validationErrors |-> NoValidationErrors, requestId |-> Undef ]

\* The error.response branch of handleApiError.
HandleResponse(error) ==
  LET status == error.response.status
      data == error.response.data
      errorCode == determineErrorCode(status, data)
      extracted == extractErrorMessage(data)
      validationErrors == extractValidationErrors(DetailOf(data))
      requestId == OrElse(error.response.headers.rid, error.response.headers.cid)
  IN IF \/ errorCode = "THROW"
        \/ extracted = Threw
        \/ validationErrors = ThrewValidationErrors
     THEN HandlerThrew(error)
     ELSE ApiError(OrElse(extracted, Str(getErrorMessage(errorCode))),
                   errorCode, status, error, DetailsOf(data),
                   validationErrors, requestId)

\* Faulty variant: only the timeout code is tested, not the message.
HandleNoResponseCodeOnly(error) ==
  IF error.code = "ECONNABORTED"
  THEN ApiError(Str(getErrorMessage("TIMEOUT")), "TIMEOUT", 0, error,
                NoDetails, NoValidationErrors, Undef)
  ELSE ApiError(Str(getErrorMessage("NETWORK_ERROR")), "NETWORK_ERROR", 0,
                error, NoDetails, NoValidationErrors, Undef)

\* The error.request branch: code === "ECONNABORTED" || message.includes("timeout")
HandleNoResponse(error) ==
  IF error.code = "ECONNABORTED"
  THEN ApiError(Str(getErrorMessage("TIMEOUT")), "TIMEOUT", 0, error,
                NoDetails, NoValidationErrors, Undef)
  ELSE IF error.message.k # "str" THEN HandlerThrew(error)
  ELSE IF Includes(error.message.v, W_timeout)
  THEN ApiError(Str(getErrorMessage("TIMEOUT")), "TIMEOUT", 0, error,
                NoDetails, NoValidationErrors, Undef)
  ELSE ApiError(Str(getErrorMessage("NETWORK_ERROR")), "NETWORK_ERROR", 0,
                error, NoDetails, NoValidationErrors, Undef)

\* Faulty variant: only the message marker is tested, not the error's name.
IsCancellationByMessage(error) ==
  error.isError /\ error.message = Str(TCanceled)

\* The cancellation test at the head of handleApiError.
IsCancellation(error) ==
  error.isError /\ (error.name = "CanceledError" \/ error.message = Str(TCanceled))

\* Faulty variant: the transport branches are tried before the cancellation test.
handleApiErrorTransportFirst(error) ==
  IF isAxiosError(error) /\ error.response.present THEN HandleResponse(error)
  ELSE IF isAxiosError(error) /\ error.request THEN HandleNoResponse(error)
  ELSE IF IsCancellation(error)
  THEN ApiError(Str(getErrorMessage("REQUEST_CANCELLED")), "REQUEST_CANCELLED",
                0, error, NoDetails, NoValidationErrors, Undef)
  ELSE ApiError(OrElse(error.message, Str(getErrorMessage("UNKNOWN_ERROR"))),
                "UNKNOWN_ERROR", 0, error, NoDetails, NoValidationErrors, Undef)

\* Faulty variant: a setup failure gets the default message, not its own.
handleApiErrorDefaultOnSetup(error) ==
  IF IsCancellation(error)
  THEN ApiError(Str(getErrorMessage("REQUEST_CANCELLED")), "REQUEST_CANCELLED",
                0, error, NoDetails, NoValidationErrors, Undef)
  ELSE IF isAxiosError(error)
  THEN IF error.response.present THEN HandleResponse(error)
       ELSE IF error.request THEN HandleNoResponse(error)
       ELSE ApiError(Str(getErrorMessage("UNKNOWN_ERROR")),
                     "UNKNOWN_ERROR", 0, error, NoDetails,
                     NoValidationErrors, Undef)
  ELSE IF error.isError
  THEN ApiError(OrElse(error.message, Str(getErrorMessage("UNKNOWN_ERROR"))),
                "UNKNOWN_ERROR", 0, error, NoDetails, NoValidationErrors, Undef)
  ELSE ApiError(Str(getErrorMessage("UNKNOWN_ERROR")), "UNKNOWN_ERROR", 0,
                error, NoDetails, NoValidationErrors, Undef)

handleApiError(error) ==
  IF IsCancellation(error)
  THEN ApiError(Str(getErrorMessage("REQUEST_CANCELLED")), "REQUEST_CANCELLED",
                0, error, NoDetails, NoValidationErrors, Undef)
  ELSE IF isAxiosError(error)
  THEN IF error.response.present THEN HandleResponse(error)
       ELSE IF error.request THEN HandleNoResponse(error)
       ELSE ApiError(OrElse(error.message, Str(getErrorMessage("UNKNOWN_ERROR"))),
                     "UNKNOWN_ERROR", 0, error, NoDetails,
                     NoValidationErrors, Undef)
  ELSE IF error.isError
  THEN ApiError(OrElse(error.message, Str(getErrorMessage("UNKNOWN_ERROR"))),
                "UNKNOWN_ERROR", 0, error, NoDetails, NoValidationErrors, Undef)
  ELSE ApiError(Str(getErrorMessage("UNKNOWN_ERROR")), "UNKNOWN_ERROR", 0,
                error, NoDetails, NoValidationErrors, Undef)

\* ApiError.isAuthError / isValidationError / isServerError / isRetryable
isAuthError(e) ==
  e.code \in {"UNAUTHORIZED", "FORBIDDEN", "TOKEN_EXPIRED", "INVALID_CREDENTIALS"}
isValidationError(e) ==
  e.code \in {"VALIDATION_ERROR", "INVALID_INPUT", "MISSING_REQUIRED_FIELD"}
isServerError(e) ==
  e.code \in {"INTERNAL_SERVER_ERROR", "SERVICE_UNAVAILABLE", "BAD_GATEWAY"}
isRetryable(e) ==
  e.code \in {"NETWORK_ERROR", "TIMEOUT", "SERVICE_UNAVAILABLE", "BAD_GATEWAY"}

\* ------------------------------------------------------ config sanitizer
\* A JavaScript value inside a request config: k is its kind, v its text
\* (numbers, strings, cancel tokens), items its own enumerable entries in
\* Object.entries order (objects) or its elements (arrays, keyed "").
Entry(key, val) == [key |-> key, val |-> val]
VUndef == [k |-> "undef", v |-> <<>>, items |-> <<>>]
VNull == [k |-> "null", v |-> <<>>, items |-> <<>>]
VNum == [k |-> "num", v |-> <<"1">>, items |-> <<>>]
VStr(t) == [k |-> "str", v |-> t, items |-> <<>>]
VFn == [k |-> "fn", v |-> <<>>, items |-> <<>>]
\* a Date: an object without own enumerable properties
VDate == [k |-> "date", v |-> <<>>, items |-> <<>>]
VArr(vals) ==
  [k |-> "arr", v |-> <<>>, items |-> [i \in 1..Len(vals) |-> Entry("", vals[i])]]
VObj(entries) == [k |-> "obj", v |-> <<>>, items |-> entries]
\* source.token of cancel source s
CancelTokenOf(s) == [k |-> "cancelToken", v |-> <<Digits[s]>>, items |-> <<>>]

AXIOS_CONFIG_KEYS ==
  { "url", "method", "baseURL", "headers", "params", "data", "timeout",
    "timeoutErrorMessage",
    "withCredentials", "auth", "withXSRFToken", "xsrfCookieName", "xsrfHeaderName",
    "responseType", "responseEncoding", "validateStatus",
    "transformRequest", "transformResponse", "paramsSerializer",
    "onUploadProgress", "onDownloadProgress",
    "maxContentLength", "maxBodyLength", "maxRedirects", "maxRate",
    "socketPath", "transport", "httpAgent", "httpsAgent", "proxy", "decompress",
    "cancelToken", "signal",
    "adapter", "transitional", "env", "formSerializer", "lookup", "family" }

\* typeof x === "object" && x !== null
IsObjectValue(x) == x.k \in {"obj", "arr", "date", "cancelToken"}

\* Array.isArray(x)
IsArray(x) == x.k = "arr"

\* Object.keys(x).length
KeyCount(x) == Len(x.items)

RECURSIVE stripFunctionsFromParams(_)
RECURSIVE StripElements(_)
RECURSIVE StripEntries(_)

\* obj.map(stripFunctionsFromParams).filter((v) => v !== undefined)
StripElements(items) ==
  IF Len(items) = 0 THEN <<>>
  ELSE LET mapped == stripFunctionsFromParams(items[1].val)
       IN (IF mapped # VUndef THEN <<Entry("", mapped)>> ELSE <<>>)
            \o StripElements(Tail(items))

\* The for-loop over Object.entries(obj) that fills result.
StripEntries(entries) ==
  IF Len(entries) = 0 THEN <<>>
  ELSE LET key == entries[1].key
           value == entries[1].val
           sanitized == stripFunctionsFromParams(value)
           kept ==
             IF value.k = "fn" THEN <<>>
             ELSE IF sanitized = VUndef THEN <<>>
             ELSE IF IsObjectValue(sanitized) /\ ~IsArray(sanitized)
                  THEN IF KeyCount(sanitized) > 0
                       THEN <<Entry(key, sanitized)>> ELSE <<>>
             ELSE <<Entry(key, sanitized)>>
       IN kept \o StripEntries(Tail(entries))

\* stripFunctionsFromParams(obj): a value that is not an object (a function
\* too: typeof gives "function") is returned as it is, before the function
\* test of the source is reached.
stripFunctionsFromParams(obj) ==
  IF ~IsObjectValue(obj) THEN obj
  ELSE IF IsArray(obj)
       THEN LET filtered == StripElements(obj.items)
            IN IF Len(filtered) > 0 THEN [obj EXCEPT !.items = filtered]
               ELSE VUndef
  ELSE LET result == StripEntries(obj.items)
       IN IF Len(result) > 0 THEN VObj(result) ELSE VUndef

\* The for-loop of sanitizeAxiosConfig over Object.entries(options).
RECURSIVE SanitizeEntries(_)
SanitizeEntries(entries) ==
  IF Len(entries) = 0 THEN <<>>
  ELSE LET key == entries[1].key
           value == entries[1].val
           sanitizedParams == stripFunctionsFromParams(value)
           kept ==
             IF key \notin AXIOS_CONFIG_KEYS THEN <<>>
             ELSE IF key = "params" /\ value # VUndef
                  THEN IF IsObjectValue(sanitizedParams) /\ KeyCount(sanitizedParams) > 0
                       THEN <<Entry(key, sanitizedParams)>> ELSE <<>>
             ELSE <<Entry(key, value)>>
       IN kept \o SanitizeEntries(Tail(entries))

\* Faulty variant: every key is copied, no allow-list.
sanitizeAxiosConfigKeepAll(options) == options

sanitizeAxiosConfig(options) == VObj(SanitizeEntries(options.items))

\* obj[key], undefined when obj has no such key
Get(obj, key) ==
  IF \E i \in 1..Len(obj.items) : obj.items[i].key = key
  THEN obj.items[CHOOSE i \in 1..Len(obj.items) : obj.items[i].key = key].val
  ELSE VUndef

\* key in obj
Has(obj, key) == \E i \in 1..Len(obj.items) : obj.items[i].key = key

\* obj[key] = val on an object literal under construction
Assign(obj, key, val) ==
  IF Has(obj, key)
  THEN [obj EXCEPT !.items =
          [i \in 1..Len(obj.items) |->
             IF obj.items[i].key = key THEN Entry(key, val) ELSE obj.items[i]]]
  ELSE [obj EXCEPT !.items = Append(obj.items, Entry(key, val))]

\* { ...target, ...src }
RECURSIVE Spread(_, _)
Spread(target, entries) ==
  IF Len(entries) = 0 THEN target
  ELSE Spread(Assign(target, entries[1].key, entries[1].val), Tail(entries))

\* options ? sanitizeAxiosConfig(options) : {}
SafeOptions(options) ==
  IF options = VUndef THEN VObj(<<>>) ELSE sanitizeAxiosConfig(options)

\* Faulty variant: the call's cancel token is written first, so a caller's
\* cancelToken spread after it wins.
WireRequestCallerWins(safeConfig, safeOptions, source) ==
  Spread(Spread(Assign(VObj(<<>>), "cancelToken", CancelTokenOf(source)),
                safeConfig.items),
         safeOptions.items)

\* The argument customInstance passes to AXIOS_INSTANCE:
\* { ...safeConfig, ...safeOptions, cancelToken: source.token }
WireRequest(safeConfig, safeOptions, source) ==
  Assign(Spread(Spread(VObj(<<>>), safeConfig.items), safeOptions.items),
         "cancelToken", CancelTokenOf(source))

\* The caller's own Authorization header in the request, as the request
\* interceptor finds it.
AuthorizationOf(wire) ==
  LET h == Get(Get(wire, "headers"), "Authorization")
  IN IF h.k = "str" THEN Str(h.v) ELSE Undef

\* ---------------------------------------------------- response validator
\* A number inside a response payload; v holds its integer value. Payload
\* texts are sequences of string fragments.
VInt(n) == [k |-> "num", v |-> <<n>>, items |-> <<>>]

\* A zod schema: t is its type, checks its refinements in declaration order,
\* dflt its .default() value if it has one, options the members of an enum,
\* fields the shape of an object or, keyed "", the element schema of an array.
Check(c, n, msg) == [c |-> c, n |-> n, msg |-> msg]
Field(key, s) == [key |-> key, schema |-> s]
ZNumber(checks) ==
  [t |-> "number", checks |-> checks, dflt |-> <<>>, options |-> <<>>, fields |-> <<>>]
ZString(checks) ==
  [t |-> "string", checks |-> checks, dflt |-> <<>>, options |-> <<>>, fields |-> <<>>]
ZEnum(options) ==
  [t |-> "enum", checks |-> <<>>, dflt |-> <<>>, options |-> options, fields |-> <<>>]
ZObject(fields) ==
  [t |-> "object", checks |-> <<>>, dflt |-> <<>>, options |-> <<>>, fields |-> fields]
ZArray(item) ==
  [t |-> "array", checks |-> <<>>, dflt |-> <<>>, options |-> <<>>,
   fields |-> <<Field("", item)>>]
WithDefault(s, d) == [s EXCEPT !.dflt = <<d>>]

\* z.string().min(1, { message: "This field is required" })
nonEmptyString == ZString(<<Check("minLength", 1, <<"This field is required">>)>>)
\* z.number().int().positive()
positiveInt == ZNumber(<<Check("int", 0, <<>>), Check("gt", 0, <<>>)>>)
\* z.number().int().nonnegative()
nonNegativeInt == ZNumber(<<Check("int", 0, <<>>), Check("gte", 0, <<>>)>>)
\* z.number().min(0).max(100)
percentageSchema == ZNumber(<<Check("gte", 0, <<>>), Check("lte", 100, <<>>)>>)
paginationParamsSchema ==
  ZObject(<<Field("page", WithDefault(positiveInt, VInt(1))),
            Field("perPage",
                  WithDefault(ZNumber(<<Check("int", 0, <<>>), Check("gt", 0, <<>>),
                                        Check("lte", 100, <<>>)>>),
                              VInt(20)))>>)
createPaginatedResponseSchema(itemSchema) ==
  ZObject(<<Field("data", ZArray(itemSchema)),
            Field("total", nonNegativeInt),
            Field("page", positiveInt),
            Field("pageSize", positiveInt),
            Field("totalPages", nonNegativeInt)>>)
requestStatusSchema == ZEnum(<<<<"pending">>, <<"approved">>, <<"rejected">>>>)

\* One issue of a ZodError: path is a sequence of object keys and array
\* indexes. Messages without a custom text are zod's defaults, shortened to
\* their leading words.
Issue(code, path, message) == [code |-> code, path |-> path, message |-> message]
KeySeg(key) == [k |-> "key", v |-> <<key>>]
IndexSeg(i) == [k |-> "index", v |-> <<i>>]
InvalidType == Issue("invalid_type", <<>>, <<"Invalid input">>)
InvalidValue == Issue("invalid_value", <<>>, <<"Invalid option">>)

\* A refinement rejects x. Every number of the model is an integer, and a
\* text is non-empty exactly when it has a fragment.
CheckFails(ch, x) ==
  CASE ch.c = "int" -> FALSE
    [] ch.c = "gt" -> ~(x.v[1] > ch.n)
    [] ch.c = "gte" -> ~(x.v[1] >= ch.n)
    [] ch.c = "lte" -> ~(x.v[1] <= ch.n)
    [] ch.c = "minLength" -> Len(x.v) < ch.n

CheckIssue(ch) ==
  Issue(IF ch.c = "lte" THEN "too_big" ELSE "too_small", <<>>,
        IF ch.msg # <<>> THEN ch.msg
        ELSE IF ch.c = "lte" THEN <<"Too big">> ELSE <<"Too small">>)

\* The issues of the refinements that reject x, in declaration order.
RunChecks(checks, x) ==
  LET failing == SelectSeq(checks, LAMBDA ch : CheckFails(ch, x))
  IN [i \in 1..Len(failing) |-> CheckIssue(failing[i])]

ParseOk(value) == [issues |-> <<>>, value |-> value]
ParseFail(issues) == [issues |-> issues, value |-> VUndef]
Checked(s, x) ==
  IF Len(RunChecks(s.checks, x)) = 0 THEN ParseOk(x) ELSE ParseFail(RunChecks(s.checks, x))

\* The issues of a field or element, their paths extended by its key or index.
Prefix(seg, issues) ==
  [i \in 1..Len(issues) |-> [issues[i] EXCEPT !.path = <<seg>> \o issues[i].path]]

\* zod's synchronous parse: the issues found and the output value, which has
\* defaults filled in and unknown object keys stripped.
RECURSIVE Parse(_, _), ParseFields(_, _), ParseElements(_, _, _)
Parse(s, x) ==
  IF x.k = "undef" /\ Len(s.dflt) = 1 THEN ParseOk(s.dflt[1])
  ELSE IF s.t = "number" THEN
    (IF x.k # "num" THEN ParseFail(<<InvalidType>>) ELSE Checked(s, x))
  ELSE IF s.t = "string" THEN
    (IF x.k # "str" THEN ParseFail(<<InvalidType>>) ELSE Checked(s, x))
  ELSE IF s.t = "enum" THEN
    (IF x.k = "str" /\ \E i \in 1..Len(s.options) : s.options[i] = x.v
     THEN ParseOk(x) ELSE ParseFail(<<InvalidValue>>))
  ELSE IF s.t = "object" THEN
    (IF x.k # "obj" THEN ParseFail(<<InvalidType>>) ELSE ParseFields(s.fields, x))
  ELSE
    (IF x.k # "arr" THEN ParseFail(<<InvalidType>>)
     ELSE ParseElements(s.fields[1].schema, x.items, 0))

ParseFields(fields, x) ==
  IF Len(fields) = 0 THEN ParseOk(VObj(<<>>))
  ELSE LET head == Parse(fields[1].schema, Get(x, fields[1].key))
           rest == ParseFields(Tail(fields), x)
       IN [issues |-> Prefix(KeySeg(fields[1].key), head.issues) \o rest.issues,
           value |-> VObj(<<Entry(fields[1].key, head.value)>> \o rest.value.items)]

ParseElements(item, elems, index) ==
  IF Len(elems) = 0 THEN ParseOk(VArr(<<>>))
  ELSE LET head == Parse(item, elems[1].val)
           rest == ParseElements(item, Tail(elems), index + 1)
       IN [issues |-> Prefix(IndexSeg(index), head.issues) \o rest.issues,
           value |-> [k |-> "arr", v |-> <<>>,
                      items |-> <<Entry("", head.value)>> \o rest.value.items]]

NoZodError == [issues |-> <<>>]
ZodError(issues) == [issues |-> issues]

\* schema.safeParse(data)
safeParse(schema, data) ==
  IF Len(Parse(schema, data).issues) = 0
  THEN [success |-> TRUE, data |-> Parse(schema, data).value, error |-> NoZodError]
  ELSE [success |-> FALSE, data |-> VUndef,
        error |-> ZodError(Parse(schema, data).issues)]

\* String(n) of an array index
DecimalOf(n) == <<"0", "1", "2", "3", "4", "5", "6", "7", "8", "9">>[n + 1]

\* issue.path.join(".")
PathJoin(path) ==
  Join([i \in 1..Len(path) |->
          IF path[i].k = "index" THEN <<DecimalOf(path[i].v[1])>> ELSE path[i].v],
       <<".">>)

ValidationIssue(issue) ==
  [path |-> PathJoin(issue.path), message |-> issue.message, code |-> issue.code]

\* A ValidationResult: keys are the properties the returned object has.
\* Faulty variant: only the first schema issue is reported.
validateFirstIssueOnly(schema, data) ==
  IF safeParse(schema, data).success
  THEN [keys |-> {"success", "data"}, success |-> TRUE,
        data |-> safeParse(schema, data).data, error |-> NoZodError, issues |-> <<>>]
  ELSE [keys |-> {"success", "error", "issues"}, success |-> FALSE, data |-> VUndef,
        error |-> safeParse(schema, data).error,
        issues |-> <<ValidationIssue(safeParse(schema, data).error.issues[1])>>]

validate(schema, data) ==
  LET result == safeParse(schema, data)
  IN IF result.success
     THEN [keys |-> {"success", "data"}, success |-> TRUE, data |-> result.data,
           error |-> NoZodError, issues |-> <<>>]
     ELSE [keys |-> {"success", "error", "issues"}, success |-> FALSE,
           data |-> VUndef, error |-> result.error,
           issues |-> [i \in 1..Len(result.error.issues) |->
                         ValidationIssue(result.error.issues[i])]]

\* Faulty variant: a mismatch passes the unvalidated data through.
validateOrDefaultPassThrough(schema, data, defaultValue) ==
  IF safeParse(schema, data).success THEN safeParse(schema, data).data ELSE data

validateOrDefault(schema, data, defaultValue) ==
  LET result == safeParse(schema, data)
  IN IF result.success THEN result.data ELSE defaultValue

\* What one call of a validator does: it throws error, or returns value;
\* console lists the console.error calls it made.
Thrown(error, console) ==
  [threw |-> TRUE, error |-> error, value |-> VUndef, console |-> console]
Returned(value, console) ==
  [threw |-> FALSE, error |-> NoZodError, value |-> value, console |-> console]
LogEntry(data, errors) ==
  [label |-> "[API Response Validation Failed]", data |-> data, errors |-> errors]

\* Faulty variant: a mismatch throws in production too.
createResponseValidatorStrict(schema, DEV, data) ==
  IF safeParse(schema, data).success
  THEN Returned(safeParse(schema, data).data, <<>>)
  ELSE Thrown(safeParse(schema, data).error,
              IF DEV THEN <<LogEntry(data, safeParse(schema, data).error.issues)>>
              ELSE <<>>)

\* createResponseValidator(schema)(data) in a build whose import.meta.env.DEV
\* is DEV.
createResponseValidator(schema, DEV, data) ==
  LET result == safeParse(schema, data)
      console == IF ~result.success /\ DEV
                 THEN <<LogEntry(data, result.error.issues)>> ELSE <<>>
  IN IF ~result.success /\ DEV THEN Thrown(result.error, console)
     ELSE Returned(IF result.success THEN result.data ELSE data, console)

\* data.forEach((item, index) => ...) from index on; acc holds valid and invalid.
RECURSIVE ForEachItem(_, _, _, _)
ForEachItem(schema, data, index, acc) ==
  IF index >= Len(data) THEN acc
  ELSE LET result == safeParse(schema, data[index + 1])
       IN ForEachItem(schema, data, index + 1,
            IF result.success
            THEN [acc EXCEPT !.valid = Append(@, result.data)]
            ELSE [acc EXCEPT !.invalid =
                    Append(@, [index |-> index, data |-> data[index + 1],
                               error |-> result.error])])

\* Faulty variant: the first bad element ends the batch.
RECURSIVE ForEachItemFailFast(_, _, _, _)
ForEachItemFailFast(schema, data, index, acc) ==
  IF index >= Len(data) THEN acc
  ELSE LET result == safeParse(schema, data[index + 1])
       IN IF result.success
          THEN ForEachItemFailFast(schema, data, index + 1,
                                   [acc EXCEPT !.valid = Append(@, result.data)])
          ELSE [acc EXCEPT !.invalid =
                  Append(@, [index |-> index, data |-> data[index + 1],
                             error |-> result.error])]
validateArrayFailFast(schema, data) ==
  ForEachItemFailFast(schema, data, 0, [valid |-> <<>>, invalid |-> <<>>])

validateArray(schema, data) ==
  ForEachItem(schema, data, 0, [valid |-> <<>>, invalid |-> <<>>])

\* Faulty variant: the passing items are returned as they came in, unparsed.
validateArrayFilterRaw(schema, data) ==
  SelectSeq(data, LAMBDA item : safeParse(schema, item).success)

\* data.map(safeParse).filter(success).map(data)
validateArrayFilter(schema, data) ==
  LET parsed == [i \in 1..Len(data) |-> safeParse(schema, data[i])]
      kept == SelectSeq(parsed, LAMBDA result : result.success)
  IN [i \in 1..Len(kept) |-> kept[i].data]

\* ---------------------------------------------------------------- bounds
\* Requests issued through customInstance.
MaxReq == 2
\* Explicit logins during a run.
MaxLogins == 1
\* Longest detail array among the classified failures.
MaxDetailLen == 2
\* Longest array inside a params value handed to the sanitizer.
MaxArrayLen == 2
\* Most keys of a config or options object handed to the sanitizer.
MaxConfigKeys == 2
\* Longest array handed to validateArray and validateArrayFilter.
MaxItems == 3

Requests == 1..MaxReq

\* ------------------------------------------------------- transport values
NoFailure ==
  Failure(FALSE, FALSE, "none", Undef, FALSE, NoResponse, FALSE, "none", FALSE)

\* What the transport rejects with (axios 1.x): a failed status, a network
\* error, a client timeout, a cancellation.
ResponseFailure(status, data, headers) ==
  Failure(TRUE, TRUE, "AxiosError", Str(TRequestFailed), TRUE,
          Response(status, data, headers), TRUE, "ERR_BAD_REQUEST", TRUE)
NetworkFailure ==
  Failure(TRUE, TRUE, "AxiosError", Str(TNetworkError), TRUE, NoResponse,
          TRUE, "ERR_NETWORK", TRUE)
TimeoutFailure ==
  Failure(TRUE, TRUE, "AxiosError", Str(TTimeoutExceeded), TRUE, NoResponse,
          TRUE, "ECONNABORTED", TRUE)
\* source.cancel("Query was cancelled") makes a CanceledError without config,
\* request or response.
CanceledFailure ==
  Failure(TRUE, TRUE, "CanceledError", Str(TQueryCancelled), TRUE, NoResponse,
          FALSE, "ERR_CANCELED", FALSE)

\* The settlement of the transport call: fulfilled with a response carrying
\* data, or rejected with a failure.
Fulfilled(data) == [ok |-> TRUE, failure |-> NoFailure, data |-> data]
Rejected(failure) == [ok |-> FALSE, failure |-> failure, data |-> NoBody]
NoOutcome == [ok |-> FALSE, failure |-> NoFailure, data |-> NoBody]

\* What the server and the network may answer to a request on the wire.
WireOutcomes ==
  { Fulfilled(BodyStr(TBoom)),
    Rejected(ResponseFailure(401, BodyObj(Str(TInvalidPasswordLc), NoDetail), NoHeaders)),
    Rejected(ResponseFailure(401, NoBody, NoHeaders)),
    Rejected(ResponseFailure(403, BodyObj(Str(TAccessDenied), NoDetail), NoHeaders)),
    Rejected(ResponseFailure(500, BodyObj(Undef, DetailArr(<<NullElem>>)), NoHeaders)),
    Rejected(NetworkFailure),
    Rejected(TimeoutFailure) }

\* The result slot of a caller that has not normalized anything (yet).
NoApiError ==
  [ threw |-> FALSE, message |-> <<>>, code |-> "NONE", statusCode |-> 0,
    originalError |-> NoFailure, details |-> NoDetails,
    validationErrors |-> NoValidationErrors, requestId |-> Undef ]

\* ------------------------------------------------------------ AuthContext
\* useProfileStore: token is a text ("" when signed out), principal is the
\* profile or null.
NoToken == <<>>
TokenOf(n) == <<"t", Digits[n]>>
\* The session the store holds at startup (Logout gives the signed-out store).
StartupToken == <<"t", "0">>

\* setToken(t) / setProfile(p): plain setters of the store.
setToken(t) == t
setProfile(p) == p

\* ------------------------------------------------------------- variables
VARIABLES
  token,       \* AuthContext.token
  principal,   \* AuthContext.principal: "null" or "profile"
  logins,      \* explicit logins so far
  req,         \* per request: its place in the promise chain and what it carries
  cancelled,   \* cancel sources whose cancel() has been called
  thrown,      \* the value handed to handleApiError (normalizer runs)
  handled,     \* handleApiError has been applied to thrown
  normalized,  \* its outcome
  config,      \* first argument of customInstance (sanitizer runs)
  options,     \* second argument of customInstance, VUndef when omitted
  safeConfig,  \* sanitizeAxiosConfig(config)
  safeOptions, \* options ? sanitizeAxiosConfig(options) : {}
  wire,        \* the request config handed to AXIOS_INSTANCE
  built,       \* customInstance has built the request
  schema,      \* the schema of a validator run
  payload,     \* the payload handed to validate, validateOrDefault, the validator
  defaultValue, \* third argument of validateOrDefault
  DEV,         \* import.meta.env.DEV
  batch,       \* the array handed to validateArray and validateArrayFilter
  validated,   \* what validate returned, once called
  defaulted,   \* what validateOrDefault returned, once called
  responded,   \* what the createResponseValidator validator did, once called
  partitioned, \* what validateArray returned, once called
  filtered     \* what validateArrayFilter returned, once called

vars ==
  <<token, principal, logins, req, cancelled, thrown, handled, normalized,
    config, options, safeConfig, safeOptions, wire, built,
    schema, payload, defaultValue, DEV, batch,
    validated, defaulted, responded, partitioned, filtered>>
storeVars == <<token, principal, logins>>
normVars == <<thrown, handled, normalized>>
sanVars == <<config, options, safeConfig, safeOptions, wire, built>>
valInputs == <<schema, payload, defaultValue, DEV, batch>>
valVars ==
  <<schema, payload, defaultValue, DEV, batch,
    validated, defaulted, responded, partitioned, filtered>>

\* Faulty variant: one cancel source made at module level and shared by all calls.
NewSourceShared(r) == 1

\* axios.CancelToken.source() inside customInstance: one source per call.
NewSource(r) == r

\* Faulty variant: the call goes to a bare axios instance without the interceptors.
ChainEntryBare == "ready"

\* The stage in which a call of AXIOS_INSTANCE(...) enters the promise
\* chain: the request interceptor comes first.
ChainEntry == "created"

\* Faulty variant: the header is built from the token read once at startup.
AttachAuthorizationStartup(tok, authorization) == Str(W_Bearer \o StartupToken)

\* Faulty variant: the header is written without testing the token.
AttachAuthorizationAlways(tok, authorization) == Str(W_Bearer \o tok)

\* Request interceptor: config.headers.Authorization = `Bearer ${token}`
\* when the token is truthy, config otherwise untouched.
AttachAuthorization(tok, authorization) ==
  IF tok # NoToken THEN Str(W_Bearer \o tok) ELSE authorization

\* error.response?.status, 0 standing for undefined
ResponseStatus(failure) ==
  IF failure.response.present THEN failure.response.status ELSE 0

\* Faulty variant: the interceptor only re-raises and never clears the store.
ShouldClearAuthNever(failure) == FALSE

\* Faulty variant: only 401 clears the store.
ShouldClearAuth401Only(failure) ==
  ResponseStatus(failure) = 401 /\ failure.config

\* Faulty variant: every failed response clears the store.
ShouldClearAuthAnyStatus(failure) ==
  ResponseStatus(failure) >= 400 /\ failure.config

\* Response interceptor's test for clearing the store.
ShouldClearAuth(failure) ==
  (ResponseStatus(failure) = 401 \/ ResponseStatus(failure) = 403)
    /\ failure.config

\* Faulty variant: the interceptor rejects with a new Error(error.message).
ReraiseWrapped(outcome) ==
  IF outcome.ok THEN outcome
  ELSE [ok |-> FALSE, data |-> NoBody,
        failure |-> Failure(TRUE, TRUE, "Error", outcome.failure.message,
                            FALSE, NoResponse, FALSE, "none", FALSE)]

\* What the response interceptor hands on: the response itself, or
\* Promise.reject(error) with the error it was given.
Reraise(outcome) == outcome

IdleReq ==
  [ pc |-> "idle", source |-> 0, callerAuth |-> Undef, authorization |-> Undef,
    tokenRead |-> NoToken, wireAuth |-> Undef, outcome |-> NoOutcome,
    handedOn |-> NoOutcome, observed |-> NoOutcome, apiError |-> NoApiError,
    storeBefore |-> <<NoToken, "null">>, storeAfter |-> <<NoToken, "null">>,
    cancelCalled |-> FALSE,
    cancelInFlight |-> FALSE,
    wire |-> VObj(<<>>),
    steps |-> <<>> ]

\* No sanitizer run is under way.
SanIdle ==
  /\ config = VObj(<<>>)
  /\ options = VUndef
  /\ safeConfig = VObj(<<>>)
  /\ safeOptions = VObj(<<>>)
  /\ wire = VObj(<<>>)
  /\ built = FALSE

\* No validator run is under way.
ValIdle ==
  /\ schema = positiveInt
  /\ payload = VUndef
  /\ defaultValue = VUndef
  /\ DEV = FALSE
  /\ batch = <<>>
  /\ validated = <<>>
  /\ defaulted = <<>>
  /\ responded = <<>>
  /\ partitioned = <<>>
  /\ filtered = <<>>

\* A cancel source the caller made itself.
CallerSource == MaxReq + 1

\* The params of the sanitizer's documented example: {a: 1, b: fn, c: {}}
ExampleParams ==
  VObj(<<Entry("a", VNum), Entry("b", VFn), Entry("c", VObj(<<>>))>>)

\* The (config, options) pairs the callers of the transport runs pass: a
\* generated hook that leaks its select option and params and passes a cancel
\* token of its own in config, and a caller that adds its own Authorization
\* header and cancel token through options.
CallArgs ==
  { [ config |-> VObj(<<Entry("url", VStr(TUrl)), Entry("select", VFn),
                        Entry("params", ExampleParams),
                        Entry("cancelToken", CancelTokenOf(CallerSource))>>),
      options |-> VUndef ],
    [ config |-> VObj(<<Entry("url", VStr(TUrl))>>),
      options |-> VObj(<<Entry("headers",
                               VObj(<<Entry("Authorization", VStr(TBasic))>>)),
                         Entry("cancelToken", CancelTokenOf(CallerSource)),
                         Entry("enabled", VNum)>>) ] }

Init ==
  /\ token = StartupToken
  /\ principal = "profile"
  /\ logins = 0
  /\ req = [r \in Requests |-> IdleReq]
  /\ cancelled = {}
  /\ thrown = NoFailure
  /\ handled = FALSE
  /\ normalized = NoApiError
  /\ SanIdle
  /\ ValIdle

\* customInstance(config, options): makes the cancel source, sanitizes, calls
\* AXIOS_INSTANCE with cancelToken: source.token and returns the promise with
\* its cancel handle. callerAuth is the caller's own Authorization header in
\* the request built, if any.
Call(r, cfg, opts) ==
  /\ req[r].pc = "idle"
  /\ \A q \in Requests : q < r => req[q].pc # "idle"
  /\ LET request == WireRequest(sanitizeAxiosConfig(cfg), SafeOptions(opts),
                                NewSource(r))
     IN req' = [req EXCEPT ![r] = [@ EXCEPT
                  !.pc = ChainEntry,
                  !.source = NewSource(r),
                  !.wire = request,
                  !.callerAuth = AuthorizationOf(request),
                  !.authorization = AuthorizationOf(request)]]
  /\ UNCHANGED <<storeVars, cancelled, normVars, sanVars, valVars>>

\* AXIOS_INSTANCE.interceptors.request: reads the token and attaches it.
RequestInterceptor(r) ==
  /\ req[r].pc = "created"
  /\ req' = [req EXCEPT ![r] = [@ EXCEPT
               !.pc = "ready",
               !.tokenRead = token,
               !.authorization = AttachAuthorization(token, @),
               !.steps = Append(@, "requestInterceptor")]]
  /\ UNCHANGED <<storeVars, cancelled, normVars, sanVars, valVars>>

\* dispatchRequest: throws the cancellation if cancel() was already called,
\* otherwise puts the request on the wire.
Dispatch(r) ==
  /\ req[r].pc = "ready"
  /\ IF req[r].source \in cancelled
     THEN req' = [req EXCEPT ![r] = [@ EXCEPT
                    !.pc = "received",
                    !.outcome = Rejected(CanceledFailure)]]
     ELSE req' = [req EXCEPT ![r] = [@ EXCEPT
                    !.pc = "sent",
                    !.wireAuth = req[r].authorization,
                    !.steps = Append(@, "sent")]]
  /\ UNCHANGED <<storeVars, cancelled, normVars, sanVars, valVars>>

\* The transport settles the request on the wire: with the cancellation when
\* its cancel token fired, otherwise with what the server or network gave.
TransportComplete(r, o) ==
  /\ req[r].pc = "sent"
  /\ req' = [req EXCEPT ![r] = [@ EXCEPT
               !.pc = "received",
               !.outcome = IF req[r].source \in cancelled
                           THEN Rejected(CanceledFailure) ELSE o]]
  /\ UNCHANGED <<storeVars, cancelled, normVars, sanVars, valVars>>

\* AXIOS_INSTANCE.interceptors.response: success passes; on a failure with
\* status 401/403 the store is cleared; the failure is re-raised. storeBefore
\* and storeAfter record the store as the interceptor found and left it.
ResponseInterceptor(r) ==
  /\ req[r].pc = "received"
  /\ LET o == req[r].outcome
         clear == ~o.ok /\ ShouldClearAuth(o.failure)
         tok == IF clear THEN setToken(NoToken) ELSE token
         prof == IF clear THEN setProfile("null") ELSE principal
     IN /\ token' = tok
        /\ principal' = prof
        /\ req' = [req EXCEPT ![r] = [@ EXCEPT
                     !.pc = "intercepted",
                     !.handedOn = Reraise(o),
                     !.storeBefore = <<token, principal>>,
                     !.storeAfter = <<tok, prof>>,
                     !.steps = Append(@, "responseInterceptor")]]
  /\ UNCHANGED <<logins, cancelled, normVars, sanVars, valVars>>

\* .then(({ data }) => data) and the caller: the caller sees the data or the
\* rejection, and routes a rejection through handleApiError.
Observe(r) ==
  /\ req[r].pc = "intercepted"
  /\ req' = [req EXCEPT ![r] = [@ EXCEPT
               !.pc = "settled",
               !.observed = req[r].handedOn,
               !.apiError = IF req[r].handedOn.ok THEN NoApiError
                            ELSE handleApiError(req[r].handedOn.failure),
               !.steps = Append(@, "observed")]]
  /\ UNCHANGED <<storeVars, cancelled, normVars, sanVars, valVars>>

\* promise.cancel(): source.cancel("Query was cancelled") of that call. Once
\* the caller has observed the result the handle no longer does anything.
Cancel(r) ==
  /\ req[r].pc \notin {"idle", "settled"}
  /\ req[r].source \notin cancelled
  /\ cancelled' = cancelled \cup {req[r].source}
  /\ req' = [req EXCEPT ![r] = [@ EXCEPT
               !.cancelCalled = TRUE,
               !.cancelInFlight = req[r].pc \in {"created", "ready", "sent"}]]
  /\ UNCHANGED <<storeVars, normVars, sanVars, valVars>>

\* Explicit login: the store gets a newly issued token and the profile.
Login ==
  /\ logins < MaxLogins
  /\ logins' = logins + 1
  /\ token' = setToken(TokenOf(logins + 1))
  /\ principal' = setProfile("profile")
  /\ UNCHANGED <<req, cancelled, normVars, sanVars, valVars>>

\* Explicit logout.
Logout ==
  /\ <<token, principal>> # <<NoToken, "null">>
  /\ token' = setToken(NoToken)
  /\ principal' = setProfile("null")
  /\ UNCHANGED <<logins, req, cancelled, normVars, sanVars, valVars>>

Next ==
  \/ \E r \in Requests, a \in CallArgs : Call(r, a.config, a.options)
  \/ \E r \in Requests : RequestInterceptor(r)
  \/ \E r \in Requests : Dispatch(r)
  \/ \E r \in Requests, o \in WireOutcomes : TransportComplete(r, o)
  \/ \E r \in Requests : ResponseInterceptor(r)
  \/ \E r \in Requests : Observe(r)
  \/ \E r \in Requests : Cancel(r)
  \/ Login
  \/ Logout

Spec == Init /\ [][Next]_vars

\* The promise chain of one request: every continuation that is ready is run
\* by the event loop, and the transport settles every request on the wire
\* (at the latest when its timeout expires, at once when it is aborted).
Advance(r) ==
  \/ RequestInterceptor(r)
  \/ Dispatch(r)
  \/ \E o \in WireOutcomes : TransportComplete(r, o)
  \/ ResponseInterceptor(r)
  \/ Observe(r)

\* The runs the progress claim is checked on: the same actions, with the
\* answers of the wire drawn from one success, one authorization failure and
\* one network failure, callers that add no header of their own, and no new
\* login while the requests run.
FairWireOutcomes ==
  { Fulfilled(BodyStr(TBoom)),
    Rejected(ResponseFailure(401, BodyObj(Str(TInvalidPasswordLc), NoDetail), NoHeaders)),
    Rejected(NetworkFailure) }

FairScope ==
  \A r \in Requests :
    /\ logins = 0
    /\ req[r].callerAuth = Undef
    /\ req[r].outcome \in {NoOutcome, Rejected(CanceledFailure)} \cup FairWireOutcomes

FairNext == Next /\ FairScope'

FairSpec == Init /\ [][FairNext]_vars /\ \A r \in Requests : WF_vars(Advance(r))

\* ------------------------------------------------- classified failures
\* The failures the normalizer is run on. Bodies range over what a server
\* can put in JSON: on the documented contract and off it.
SeqsUpTo(S, n) == UNION {[1..k -> S] : k \in 0..n}

Statuses == {0, 302, 400, 401, 403, 404, 409, 418, 422, 429, 500, 502, 503, 504}

BodyMessages ==
  { Undef, Str(<<>>), Num, Str(TInvalidPassword), Str(TIncorrectPin),
    Str(TWrongCode), Str(TTokenExpired), Str(TExpiredOrInvalid),
    Str(TSessionExpires), Str(TAccessDenied) }

DetailElems ==
  { NullElem,
    Elem(LocArr(<<L_body, L_email>>), Str(TInvalidEmail), Str(TValueError)),
    Elem(LocArr(<<L_body, L_user, L_name>>), Str(TFieldRequired), Str(TMissing)),
    Elem(LocArr(<<L_body>>), Str(TTokenExpired), Undef),
    Elem(LocArr(<<L_body>>), Str(<<>>), Str(TMissing)),
    Elem(NoLoc, Undef, Undef),
    Elem(LocStr(<<L_body>>), Str(TWrongCode), Undef) }

BodyDetails ==
  { NoDetail, DetailStr(<<>>), DetailStr(TIncorrectPin), DetailStr(TTokenExpired),
    DetailStr(TAccessDenied), DetailMap(<<>>),
    DetailMap(<<[field |-> L_email, message |-> TInvalidEmail]>>),
    DetailMap(<<[field |-> L_name, message |-> TFieldRequired],
                [field |-> L_email, message |-> TInvalidEmail]>>) }
  \cup {DetailArr(es) : es \in SeqsUpTo(DetailElems, MaxDetailLen)}

Bodies ==
  { NoBody, BodyNum, BodyStr(<<>>), BodyStr(TInvalidPassword),
    BodyStr(TTokenExpired), BodyStr(TAccessDenied) }
  \cup {BodyObj(m, d) : m \in BodyMessages, d \in BodyDetails}

HeaderSets ==
  { Headers(rid, cid) : rid \in {Undef, Str(<<>>), Str(TRid)},
                        cid \in {Undef, Str(TCid)} }

\* Failed responses as the transport raises them.
ResponseInputs ==
  {ResponseFailure(st, b, NoHeaders) : st \in Statuses, b \in Bodies}
  \cup {ResponseFailure(st, b, h) :
          st \in {404, 500},
          b \in {NoBody, BodyObj(Str(TAccessDenied), NoDetail),
                 BodyObj(Undef, DetailArr(<<NullElem>>))},
          h \in HeaderSets}

\* Every other shape: errors and non-errors, with and without the transport
\* flag, a request, a response, a timeout code, a cancellation marker.
OtherResponses ==
  { NoResponse,
    Response(404, NoBody, NoHeaders),
    Response(401, BodyObj(Str(TTokenExpired), NoDetail), NoHeaders),
    Response(500, BodyObj(Undef, DetailArr(<<NullElem>>)), NoHeaders) }

OtherMessages ==
  { Undef, Str(<<>>), Str(TCanceled), Str(TQueryCancelled),
    Str(TTimeoutExceeded), Str(TTimeoutCaps), Str(TNetworkError),
    Str(TBadConfig) }

OtherInputs ==
  { f \in { Failure(TRUE, e, n, m, ax, resp, rq, c, resp.present) :
              e \in BOOLEAN,
              n \in {"Error", "AxiosError", "CanceledError"},
              m \in OtherMessages, ax \in BOOLEAN, resp \in OtherResponses,
              rq \in BOOLEAN,
              c \in {"none", "ECONNABORTED", "ERR_NETWORK", "ERR_CANCELED"} } :
      \* an Error is an object whose message is a string
      f.isError => f.message.k = "str" }

\* A thrown primitive (a string, undefined): it has no properties at all.
ThrownPrimitive == NoFailure

FailureInputs == ResponseInputs \cup OtherInputs \cup {ThrownPrimitive}

\* ------------------------------------------------------ normalizer runs
NormInit ==
  /\ thrown \in FailureInputs
  /\ handled = FALSE
  /\ normalized = NoApiError
  /\ token = StartupToken
  /\ principal = "profile"
  /\ logins = 0
  /\ req = [r \in Requests |-> IdleReq]
  /\ cancelled = {}
  /\ SanIdle
  /\ ValIdle

\* A caller catches thrown and calls handleApiError on it.
Normalize ==
  /\ ~handled
  /\ handled' = TRUE
  /\ normalized' = handleApiError(thrown)
  /\ UNCHANGED <<thrown, storeVars, req, cancelled, sanVars, valVars>>

NormNext == Normalize

NormSpec == NormInit /\ [][NormNext]_vars

\* ------------------------------------------------------- sanitizer runs
\* The configs and options customInstance is run on.
Absent == [k |-> "absent", v |-> <<>>, items |-> <<>>]

\* The object {a: x, b: y}, a key left out when its value is Absent.
ObjAB(x, y) ==
  VObj((IF x = Absent THEN <<>> ELSE <<Entry("a", x)>>)
         \o (IF y = Absent THEN <<>> ELSE <<Entry("b", y)>>))

ParamLeaves == {VNum, VFn, VDate, VNull}

ParamInner ==
  ParamLeaves
    \cup {VArr(s) : s \in SeqsUpTo(ParamLeaves, MaxArrayLen)}
    \cup {ObjAB(x, y) : x, y \in ParamLeaves \cup {Absent}}

ParamValues ==
  ParamInner
    \cup {VArr(s) : s \in SeqsUpTo(ParamInner, 1)}
    \cup {ObjAB(x, y) : x, y \in ParamInner \cup {Absent}}
    \cup {ExampleParams, VUndef}

\* Entries callers put into a config: transport options (among them function
\* valued ones) and bookkeeping fields of the data-fetching hooks.
SampleEntries ==
  { Entry("url", VStr(TUrl)),
    Entry("headers", VObj(<<Entry("Authorization", VStr(TBasic))>>)),
    Entry("timeout", VNum),
    Entry("validateStatus", VFn),
    Entry("cancelToken", CancelTokenOf(CallerSource)),
    Entry("select", VFn),
    Entry("queryKey", VArr(<<VNum>>)) }

DistinctKeys(es) ==
  \A i, j \in 1..Len(es) : es[i].key = es[j].key => i = j

KeyConfigs ==
  { VObj(es) : es \in {x \in SeqsUpTo(SampleEntries, MaxConfigKeys) : DistinctKeys(x)} }

ParamConfigs ==
  { VObj(<<Entry("url", VStr(TUrl)), Entry("params", p)>>) : p \in ParamValues }

ParamOptions ==
  { VUndef,
    VObj(<<Entry("params", ObjAB(Absent, VArr(<<VFn>>))), Entry("select", VFn)>>) }

SanInit ==
  /\ \/ config \in KeyConfigs /\ options \in {VUndef} \cup KeyConfigs
     \/ config \in ParamConfigs /\ options \in ParamOptions
  /\ safeConfig = VObj(<<>>)
  /\ safeOptions = VObj(<<>>)
  /\ wire = VObj(<<>>)
  /\ built = FALSE
  /\ token = StartupToken
  /\ principal = "profile"
  /\ logins = 0
  /\ req = [r \in Requests |-> IdleReq]
  /\ cancelled = {}
  /\ thrown = NoFailure
  /\ handled = FALSE
  /\ normalized = NoApiError
  /\ ValIdle

\* customInstance(config, options) up to the call of AXIOS_INSTANCE: both
\* arguments are sanitized and spread into the request, with the call's own
\* cancel token.
BuildRequest ==
  /\ ~built
  /\ built' = TRUE
  /\ safeConfig' = sanitizeAxiosConfig(config)
  /\ safeOptions' = SafeOptions(options)
  /\ wire' = WireRequest(sanitizeAxiosConfig(config), SafeOptions(options),
                         NewSource(1))
  /\ UNCHANGED <<config, options, storeVars, req, cancelled, normVars, valVars>>

SanNext == BuildRequest

SanSpec == SanInit /\ [][SanNext]_vars

\* ------------------------------------------------------- validator runs
\* The schemas of the runs: the common schemas and a paginated list of ids.
Schemas ==
  { positiveInt, percentageSchema, nonEmptyString, requestStatusSchema,
    paginationParamsSchema, createPaginatedResponseSchema(positiveInt) }

PageParams(page, perPage) ==
  VObj(<<Entry("page", page), Entry("perPage", perPage), Entry("sort", VStr(<<"asc">>))>>)

PaginatedIds(ids) ==
  VObj(<<Entry("data", VArr(ids)), Entry("total", VInt(2)), Entry("page", VInt(1)),
         Entry("pageSize", VInt(20)), Entry("totalPages", VInt(1))>>)

\* Response payloads: matching and mismatching ones for every schema.
Payloads ==
  { VUndef, VNull, VInt(3), VInt(0), VInt(101),
    VStr(<<"pending">>), VStr(<<"done">>), VStr(<<>>),
    VObj(<<>>), PageParams(VInt(2), VInt(50)), PageParams(VInt(0), VInt(101)),
    PaginatedIds(<<VInt(1), VInt(2)>>), PaginatedIds(<<VInt(1), VInt(0)>>) }

\* The fallback a caller of validateOrDefault passes for a schema.
DefaultFor(s) ==
  IF s.t = "number" THEN VInt(1)
  ELSE IF s.t = "string" THEN VStr(<<"n/a">>)
  ELSE IF s.t = "enum" THEN VStr(<<"pending">>)
  ELSE IF s = paginationParamsSchema
       THEN VObj(<<Entry("page", VInt(1)), Entry("perPage", VInt(20))>>)
  ELSE PaginatedIds(<<>>)

\* The schemas and elements of the arrays handed to the batch validators.
ItemSchemas == { positiveInt, requestStatusSchema, paginationParamsSchema }
ItemPool ==
  { VInt(3), VInt(0), VStr(<<"pending">>), VObj(<<>>), PageParams(VInt(0), VInt(50)) }
Batches == UNION { [1..n -> ItemPool] : n \in 1..MaxItems }

ValInit ==
  /\ \/ /\ schema \in Schemas
        /\ payload \in Payloads
        /\ DEV \in BOOLEAN
        /\ batch = <<>>
     \/ /\ schema \in ItemSchemas
        /\ payload = VUndef
        /\ DEV = FALSE
        /\ batch \in Batches
  /\ defaultValue = DefaultFor(schema)
  /\ validated = <<>>
  /\ defaulted = <<>>
  /\ responded = <<>>
  /\ partitioned = <<>>
  /\ filtered = <<>>
  /\ token = StartupToken
  /\ principal = "profile"
  /\ logins = 0
  /\ req = [r \in Requests |-> IdleReq]
  /\ cancelled = {}
  /\ thrown = NoFailure
  /\ handled = FALSE
  /\ normalized = NoApiError
  /\ SanIdle

\* validate(schema, data)
Validate ==
  /\ validated = <<>>
  /\ validated' = <<validate(schema, payload)>>
  /\ UNCHANGED <<valInputs, defaulted, responded, partitioned, filtered,
                 storeVars, req, cancelled, normVars, sanVars>>

\* validateOrDefault(schema, data, defaultValue)
ValidateOrDefault ==
  /\ defaulted = <<>>
  /\ defaulted' = <<validateOrDefault(schema, payload, defaultValue)>>
  /\ UNCHANGED <<valInputs, validated, responded, partitioned, filtered,
                 storeVars, req, cancelled, normVars, sanVars>>

\* One call of the validator made by createResponseValidator(schema).
ValidateResponse ==
  /\ responded = <<>>
  /\ responded' = <<createResponseValidator(schema, DEV, payload)>>
  /\ UNCHANGED <<valInputs, validated, defaulted, partitioned, filtered,
                 storeVars, req, cancelled, normVars, sanVars>>

\* validateArray(schema, data)
ValidateArray ==
  /\ partitioned = <<>>
  /\ partitioned' = <<validateArray(schema, batch)>>
  /\ UNCHANGED <<valInputs, validated, defaulted, responded, filtered,
                 storeVars, req, cancelled, normVars, sanVars>>

\* validateArrayFilter(schema, data)
ValidateArrayFilter ==
  /\ filtered = <<>>
  /\ filtered' = <<validateArrayFilter(schema, batch)>>
  /\ UNCHANGED <<valInputs, validated, defaulted, responded, partitioned,
                 storeVars, req, cancelled, normVars, sanVars>>

ValNext ==
  \/ Validate
  \/ ValidateOrDefault
  \/ ValidateResponse
  \/ ValidateArray
  \/ ValidateArrayFilter

ValSpec == ValInit /\ [][ValNext]_vars

\* ============================================================== claims
\* Vocabulary of the claims about handleApiError.

\* The failure is a cancellation: an Error named CanceledError (what the
\* transport rejects with) or one whose message is the marker "canceled".
CancelSignal(e) ==
  e.isError /\ (e.name = "CanceledError" \/ e.message = Str(TCanceled))

\* A transport error that carries a server response and is no cancellation.
CarriesResponse(e) ==
  ~CancelSignal(e) /\ e.isError /\ e.isAxiosError /\ e.response.present

\* The status table as the specification states it.
TableKind(s) ==
  CASE s \in {400, 422} -> "VALIDATION_ERROR"
    [] s = 401 -> "UNAUTHORIZED"
    [] s = 403 -> "FORBIDDEN"
    [] s = 404 -> "NOT_FOUND"
    [] s = 409 -> "CONFLICT"
    [] s \in {429, 503} -> "SERVICE_UNAVAILABLE"
    [] s = 500 -> "INTERNAL_SERVER_ERROR"
    [] s = 502 -> "BAD_GATEWAY"
    [] s = 504 -> "TIMEOUT"
    [] OTHER -> "UNKNOWN_ERROR"

\* text contains word, compared case-insensitively
ContainsWord(text, word) == Includes(ToLower(text), word)

\* The 401 rule as the specification states it, on the message text.
KindFor401(text) ==
  IF \/ ContainsWord(text, W_invalid)
     \/ ContainsWord(text, W_incorrect)
     \/ ContainsWord(text, W_wrong)
  THEN "INVALID_CREDENTIALS"
  ELSE IF ContainsWord(text, W_expired) THEN "TOKEN_EXPIRED"
  ELSE "UNAUTHORIZED"

\* The text of the message extracted from a body ("" when the body gives a
\* non-text message or the extraction fails).
ExtractedText(data) ==
  IF extractErrorMessage(data).k = "str" THEN extractErrorMessage(data).v
  ELSE <<>>

\* C1: for every failure carrying a server response, handleApiError returns
\* the kind the status table gives for the status (unknown for a status not
\* in the table), whatever the body contains; only 401 may depend on the body.
C1_StatusDecidesKind ==
  (handled /\ CarriesResponse(thrown) /\ thrown.response.status # 401)
    => /\ ~normalized.threw
       /\ normalized.code = TableKind(thrown.response.status)

\* C1, as far as the code goes: whenever handleApiError returns for such a
\* failure the kind is the table's, and determineErrorCode gives it for
\* every body.
C1_KindWhenReturned ==
  (handled /\ CarriesResponse(thrown) /\ thrown.response.status # 401)
    => /\ determineErrorCode(thrown.response.status, thrown.response.data)
            = TableKind(thrown.response.status)
       /\ ~normalized.threw
            => normalized.code = TableKind(thrown.response.status)

\* C2: a cancellation is classified cancelled with httpStatus 0, whatever
\* else the failure carries (a response, a request, a timeout code, the
\* transport flag).
C2_CancelledFirst ==
  (handled /\ CancelSignal(thrown))
    => /\ ~normalized.threw
       /\ normalized.code = "REQUEST_CANCELLED"
       /\ normalized.statusCode = 0

\* C2 witness: a cancellation that also carries a 404 response, a request,
\* the timeout code and the transport flag has been classified cancelled.
C2_Witness ==
  /\ handled
  /\ CancelSignal(thrown)
  /\ thrown.response.present /\ thrown.response.status = 404
  /\ thrown.request /\ thrown.isAxiosError /\ thrown.code = "ECONNABORTED"
  /\ normalized.code = "REQUEST_CANCELLED"

\* C3: for a 401 response the kind follows the extracted message, compared
\* case-insensitively: invalid/incorrect/wrong give invalid-credentials, else
\* expired gives token-expired, else unauthorized.
C3_Kind401ByMessage ==
  (handled /\ CarriesResponse(thrown) /\ thrown.response.status = 401)
    => /\ ~normalized.threw
       /\ normalized.code = KindFor401(ExtractedText(thrown.response.data))

\* C3, as far as the code goes: whenever handleApiError returns for a 401
\* response the kind follows the rule.
C3_Kind401WhenReturned ==
  (handled /\ CarriesResponse(thrown) /\ thrown.response.status = 401
     /\ ~normalized.threw)
    => normalized.code = KindFor401(ExtractedText(thrown.response.data))

\* Vocabulary of the claims about the transport wrapper.

\* The failure is a failed response with status 401 or 403.
AuthFailure(outcome) ==
  ~outcome.ok /\ outcome.failure.response.present
    /\ outcome.failure.response.status \in {401, 403}

\* The response interceptor has run for request r.
Intercepted(r) == req[r].pc \in {"intercepted", "settled"}

\* The end-to-end example: 401 with body {message: "invalid password"}.
InvalidPassword401 ==
  Rejected(ResponseFailure(401, BodyObj(Str(TInvalidPasswordLc), NoDetail), NoHeaders))

\* position of step x in the log of request r (0 when it did not happen)
StepAt(r, x) ==
  IF \E i \in 1..Len(req[r].steps) : req[r].steps[i] = x
  THEN CHOOSE i \in 1..Len(req[r].steps) : req[r].steps[i] = x
  ELSE 0

\* C4: when a response failed with 401 or 403, the incoming interceptor has
\* set the token to empty and the principal to null before the caller sees
\* the rejection, and the token the request was sent with is never still
\* stored once the caller has seen it.
C4_ClearedBeforeObserved ==
  \A r \in Requests :
    (Intercepted(r) /\ AuthFailure(req[r].outcome))
      => /\ req[r].storeAfter = <<NoToken, "null">>
         /\ StepAt(r, "responseInterceptor") > 0
         /\ (req[r].pc = "settled" /\ req[r].tokenRead # NoToken)
              => token # req[r].tokenRead

\* C4 witness: a caller has seen a 403 of a request sent with the startup
\* token, and the store is empty.
C4_Witness ==
  \E r \in Requests :
    /\ req[r].pc = "settled"
    /\ AuthFailure(req[r].observed)
    /\ req[r].observed.failure.response.status = 403
    /\ req[r].tokenRead = StartupToken
    /\ token = NoToken /\ principal = "null"

\* C5: a step of the transport layer changes token or principal only when it
\* is the incoming interceptor processing a failed response with status 401
\* or 403; every other step (call, outgoing interceptor, send, completion,
\* other failures, success, delivery, cancel) leaves both as they were.
C5_OnlyAuthFailureClears ==
  [][ (req' # req \/ cancelled' # cancelled)
        => \/ (token' = token /\ principal' = principal)
           \/ \E r \in Requests :
                /\ req[r].pc = "received" /\ req'[r].pc = "intercepted"
                /\ AuthFailure(req[r].outcome) ]_vars

\* C5 witness: two requests have gone all the way, one ending in a 500 and
\* one in a network failure, and the startup session is still stored.
C5_Witness ==
  /\ \A r \in Requests : req[r].pc = "settled" /\ req[r].tokenRead = StartupToken
  /\ \E r \in Requests : req[r].observed = Rejected(NetworkFailure)
  /\ \E r \in Requests : ~req[r].observed.ok
                          /\ req[r].observed.failure.response.status = 500
  /\ token = StartupToken /\ principal = "profile"

\* C6: the incoming interceptor hands on exactly the failure it received, so
\* the caller's normalization is that of the transport's failure; a 401 with
\* body {message: "invalid password"} is normalized to invalid-credentials
\* and the interceptor has left the token cleared.
C6_ReraisedUnchanged ==
  \A r \in Requests :
    /\ Intercepted(r) => req[r].handedOn = req[r].outcome
    /\ (req[r].pc = "settled" /\ ~req[r].outcome.ok)
         => /\ req[r].observed = req[r].outcome
            /\ req[r].apiError = handleApiError(req[r].outcome.failure)
    /\ (req[r].pc = "settled" /\ req[r].outcome = InvalidPassword401)
         => /\ req[r].apiError.code = "INVALID_CREDENTIALS"
            /\ req[r].storeAfter[1] = NoToken

\* C6 witness: the caller has normalized the 401 "invalid password" failure
\* to invalid-credentials and the token is empty.
C6_Witness ==
  \E r \in Requests :
    /\ req[r].pc = "settled"
    /\ req[r].observed = InvalidPassword401
    /\ req[r].apiError.code = "INVALID_CREDENTIALS"
    /\ token = NoToken

\* C7: when the cancel handle of a request is invoked while the request is
\* in flight, its promise eventually rejects, and handleApiError classifies
\* the rejection as cancelled with httpStatus 0.
C7_CancelInFlightIsCancelled ==
  \A r \in Requests :
    req[r].cancelInFlight
      ~> /\ req[r].pc = "settled"
         /\ ~req[r].observed.ok
         /\ ~req[r].apiError.threw
         /\ req[r].apiError.code = "REQUEST_CANCELLED"
         /\ req[r].apiError.statusCode = 0

\* C7 witness: a request was cancelled while on the wire and its caller has
\* the cancelled classification.
C7_Witness ==
  \E r \in Requests :
    /\ req[r].pc = "settled" /\ req[r].cancelInFlight
    /\ StepAt(r, "sent") > 0
    /\ req[r].apiError.code = "REQUEST_CANCELLED"

\* C8: each call owns its cancel handle: a request is settled with the
\* cancellation only if its own handle was invoked; otherwise it gets what
\* the server or transport gave; and invoking one handle changes nothing of
\* any other request.
C8_OwnCancelHandle ==
  /\ [](\A r \in Requests :
          /\ req[r].pc # "idle" =>
               \A q \in Requests \ {r} : req[q].pc # "idle" => req[q].source # req[r].source
          /\ (req[r].pc \in {"received", "intercepted", "settled"} /\ ~req[r].cancelCalled)
               => req[r].outcome \in WireOutcomes
          /\ (req[r].pc = "settled" /\ ~req[r].cancelCalled)
               => req[r].observed = req[r].outcome)
  /\ [][\A r \in Requests :
          (~req[r].cancelCalled /\ req'[r].cancelCalled)
            => \A q \in Requests \ {r} : req'[q] = req[q]]_vars

\* C8 witness: two requests are on the wire, the handle of the first has
\* been invoked and that of the second has not.
C8_Witness ==
  /\ req[1].pc = "sent" /\ req[1].cancelCalled
  /\ req[2].pc = "sent" /\ ~req[2].cancelCalled

\* C9: per request, the outgoing interceptor completes before the request
\* is sent and the incoming interceptor completes before the caller observes
\* the result, in every interleaving with other requests.
C9_InterceptorOrder ==
  \A r \in Requests :
    /\ StepAt(r, "sent") > 0
         => /\ StepAt(r, "requestInterceptor") > 0
            /\ StepAt(r, "requestInterceptor") < StepAt(r, "sent")
            /\ req[r].wireAuth = req[r].authorization
    /\ StepAt(r, "observed") > 0
         => /\ StepAt(r, "responseInterceptor") > 0
            /\ StepAt(r, "responseInterceptor") < StepAt(r, "observed")
    /\ req[r].pc = "settled" <=> StepAt(r, "observed") > 0

\* C9 witness: one request has gone through all four steps in order while
\* another one is on the wire.
C9_Witness ==
  \E r, q \in Requests :
    /\ req[r].steps = <<"requestInterceptor", "sent", "responseInterceptor", "observed">>
    /\ req[q].pc = "sent"

\* C10: the outgoing interceptor sets Authorization to "Bearer <token>"
\* exactly when the token is non-empty when it runs, with that value;
\* with an empty token it adds nothing, and in both cases the request goes on.
C10_BearerIffToken ==
  /\ [](\A r \in Requests :
          req[r].pc \notin {"idle", "created"}
            => req[r].authorization =
                 IF req[r].tokenRead # NoToken
                 THEN Str(<<"B", "e", "a", "r", "e", "r", " ">> \o req[r].tokenRead)
                 ELSE req[r].callerAuth)
  /\ [][\A r \in Requests :
          (req[r].pc = "created" /\ req'[r].pc # "created")
            => /\ req'[r].pc = "ready"
               /\ req'[r].tokenRead = token
               /\ (token = NoToken => req'[r].authorization = req[r].callerAuth)]_vars

\* C10 witness: a request whose interceptor ran with an empty token is on
\* the wire without any Authorization header.
C10_Witness ==
  \E r \in Requests :
    /\ req[r].pc = "sent"
    /\ req[r].tokenRead = NoToken
    /\ req[r].wireAuth = Undef

\* Vocabulary of the claims about the config sanitizer.

\* Object.keys(obj) as a set
Keys(obj) == {obj.items[i].key : i \in 1..Len(obj.items)}

\* output is input cut down to the allow-list: nothing outside the list, and
\* every listed key other than params with the value it had.
CutToAllowList(input, output) ==
  /\ Keys(output) \subseteq AXIOS_CONFIG_KEYS
  /\ \A key \in Keys(input) :
       /\ key \notin AXIOS_CONFIG_KEYS => ~Has(output, key)
       /\ (key \in AXIOS_CONFIG_KEYS /\ key # "params")
            => Has(output, key) /\ Get(output, key) = Get(input, key)
  /\ Keys(output) \subseteq Keys(input)

\* a function occurs in value x, at any depth
RECURSIVE HasFunction(_)
HasFunction(x) ==
  \/ x.k = "fn"
  \/ \E i \in 1..Len(x.items) : HasFunction(x.items[i].val)

\* an empty object or an empty array occurs in value x, at any depth
RECURSIVE HasEmptyContainer(_)
HasEmptyContainer(x) ==
  \/ x.k \in {"obj", "arr"} /\ Len(x.items) = 0
  \/ \E i \in 1..Len(x.items) : HasEmptyContainer(x.items[i].val)

\* The values inside x that are neither functions nor containers, each with
\* the path of keys leading to it (an array step is the key "").
RECURSIVE LeavesOf(_, _)
LeavesOf(x, path) ==
  IF x.k \in {"obj", "arr"}
  THEN UNION { LeavesOf(x.items[i].val, Append(path, x.items[i].key)) :
                 i \in 1..Len(x.items) }
  ELSE IF x.k \in {"fn", "undef"} \/ Len(path) = 0 THEN {}
  ELSE {<<path, x>>}

\* C11: what sanitizeAxiosConfig returns has only allow-listed keys: every
\* other input key is dropped and every allow-listed key other than params
\* keeps its value; customInstance sanitizes config and options, so the
\* request it hands to the transport has no key outside the allow-list.
C11_OnlyAllowListedKeys ==
  built
    => /\ CutToAllowList(config, safeConfig)
       /\ options # VUndef => CutToAllowList(options, safeOptions)
       /\ options = VUndef => safeOptions = VObj(<<>>)
       /\ Keys(wire) \subseteq AXIOS_CONFIG_KEYS
       /\ Keys(wire) \subseteq Keys(config) \cup Keys(options) \cup {"cancelToken"}

\* C11 witness: a config with a select option and a validateStatus function
\* and options with a queryKey went through customInstance; the request has
\* validateStatus as given and neither select nor queryKey.
C11_Witness ==
  /\ built
  /\ Has(config, "select") /\ Has(config, "validateStatus")
  /\ Has(options, "queryKey") /\ Has(options, "timeout")
  /\ Get(wire, "validateStatus") = VFn
  /\ Get(wire, "timeout") = VNum
  /\ ~Has(wire, "select") /\ ~Has(wire, "queryKey")

\* C12: after sanitizeAxiosConfig the params field holds no function at
\* any depth, be it the value of an object key or an element of an array.
C12_NoFunctionInParams ==
  built
    => /\ ~HasFunction(Get(safeConfig, "params"))
       /\ ~HasFunction(Get(safeOptions, "params"))
       /\ ~HasFunction(Get(wire, "params"))

\* C12, as far as the code goes: no function is left as the value of an
\* object key whose path from params runs through objects only.
RECURSIVE HasFunctionUnderKeys(_)
HasFunctionUnderKeys(x) ==
  x.k = "obj"
    /\ \E i \in 1..Len(x.items) :
         \/ x.items[i].val.k = "fn"
         \/ HasFunctionUnderKeys(x.items[i].val)

C12_NoFunctionUnderObjectKeys ==
  built
    => /\ ~HasFunctionUnderKeys(Get(safeConfig, "params"))
       /\ ~HasFunctionUnderKeys(Get(safeOptions, "params"))

\* C13: after sanitizeAxiosConfig the params field holds no empty object and
\* no empty array at any depth, the params key is absent when nothing is
\* left, params {a: 1, b: fn, c: {}} becomes exactly {a: 1}, and every value
\* that is neither a function nor a container is kept at its path.
C13_NoEmptyContainerLeavesKept ==
  built
    => /\ ~HasEmptyContainer(Get(safeConfig, "params"))
       /\ Get(safeConfig, "params").k \in {"undef", "obj", "arr"}
       /\ Get(config, "params") = ExampleParams
            => Get(safeConfig, "params") = VObj(<<Entry("a", VNum)>>)
       /\ LeavesOf(Get(config, "params"), <<>>)
            \subseteq LeavesOf(Get(safeConfig, "params"), <<>>)

\* C13, as far as the code goes: the same, for the values that are numbers,
\* strings or null.
C13_PrimitivesKept ==
  built
    => /\ ~HasEmptyContainer(Get(safeConfig, "params"))
       /\ Get(safeConfig, "params").k \in {"undef", "obj", "arr"}
       /\ Get(config, "params") = ExampleParams
            => Get(safeConfig, "params") = VObj(<<Entry("a", VNum)>>)
       /\ {l \in LeavesOf(Get(config, "params"), <<>>) : l[2].k # "date"}
            \subseteq LeavesOf(Get(safeConfig, "params"), <<>>)

\* Further vocabulary of the claims about handleApiError.

\* A transport error whose request was sent and that got no response, and
\* that is no cancellation.
SentNoResponse(e) ==
  ~CancelSignal(e) /\ e.isError /\ e.isObject /\ e.isAxiosError
    /\ ~e.response.present /\ e.request

\* A transport error that has neither a response nor a sent request.
SetupFailure(e) ==
  ~CancelSignal(e) /\ e.isObject /\ e.isAxiosError
    /\ ~e.response.present /\ ~e.request

\* An error object that does not come from the transport.
PlainError(e) == ~CancelSignal(e) /\ e.isError /\ ~(e.isObject /\ e.isAxiosError)

\* A thrown value that is not an error at all.
NotAnError(e) == ~e.isError /\ ~(e.isObject /\ e.isAxiosError)

\* the failure's own message, when it is a non-empty text
HasOwnMessage(e) == e.message.k = "str" /\ e.message.v # <<>>

\* C14: a transport failure with a sent request and no response is a timeout
\* when it carries the code ECONNABORTED or its message contains "timeout",
\* and network-unreachable otherwise; httpStatus is 0 and the message is the
\* registry's message of the kind.
C14_TimeoutOrNetwork ==
  (handled /\ SentNoResponse(thrown))
    => /\ ~normalized.threw
       /\ normalized.code =
            IF \/ thrown.code = "ECONNABORTED"
               \/ Includes(thrown.message.v, <<"t", "i", "m", "e", "o", "u", "t">>)
            THEN "TIMEOUT" ELSE "NETWORK_ERROR"
       /\ normalized.statusCode = 0
       /\ normalized.message = ERROR_MESSAGES[normalized.code]

\* C14 witness: a failure without the timeout code whose message says
\* "timeout of 30000ms exceeded" has been classified timeout.
C14_Witness ==
  /\ handled
  /\ SentNoResponse(thrown)
  /\ thrown.code = "ERR_NETWORK"
  /\ thrown.message = Str(TTimeoutExceeded)
  /\ normalized.code = "TIMEOUT"
  /\ normalized.message = ERROR_MESSAGES["TIMEOUT"]

\* C15: a setup failure, a plain error and a thrown non-error are classified
\* unknown with httpStatus 0; the message is the failure's own non-empty
\* message in the first two cases and the registry's unknown message
\* otherwise.
C15_UnknownKinds ==
  (handled /\ (SetupFailure(thrown) \/ PlainError(thrown) \/ NotAnError(thrown)))
    => /\ ~normalized.threw
       /\ normalized.code = "UNKNOWN_ERROR"
       /\ normalized.statusCode = 0
       /\ normalized.message =
            IF (SetupFailure(thrown) \/ PlainError(thrown)) /\ HasOwnMessage(thrown)
            THEN thrown.message.v
            ELSE ERROR_MESSAGES["UNKNOWN_ERROR"]

\* C15 witness: a setup failure with the message "Invalid URL" has been
\* classified unknown with that message.
C15_Witness ==
  /\ handled
  /\ SetupFailure(thrown)
  /\ thrown.isError
  /\ thrown.message = Str(TBadConfig)
  /\ normalized.code = "UNKNOWN_ERROR"
  /\ normalized.message = TBadConfig

\* C16: handleApiError returns for every thrown value, without throwing
\* itself; the kind is one of the enumerated kinds and the cause is the
\* value that was passed in.
C16_Total ==
  handled
    => /\ ~normalized.threw
       /\ normalized.code \in ApiErrorCode
       /\ normalized.originalError = thrown

\* C16, as far as the code goes: whenever handleApiError returns, the kind
\* is an enumerated one and the cause is the value passed in.
C16_WhenReturned ==
  (handled /\ ~normalized.threw)
    => /\ normalized.code \in ApiErrorCode
       /\ normalized.originalError = thrown

\* The message the specification's order of preference gives for a body:
\* message if it is a text, else detail if it is a text, else the msg
\* entries of a detail array joined by ", "; <<>> when none of them gives a
\* text.
PreferredMessage(data) ==
  IF data.k # "obj" THEN <<>>
  ELSE IF data.message.k = "str" /\ data.message.v # <<>> THEN data.message.v
  ELSE IF data.detail.k = "str" /\ data.detail.v # <<>> THEN data.detail.v
  ELSE IF data.detail.k = "arr" THEN Join(TruthyMsgs(data.detail.elems), SepComma)
  ELSE <<>>

\* C17: for a failure with a response the message is the first of: the
\* body's message, the body's detail text, the joined msg entries of a
\* detail array; and the registry's message of the resolved kind when none
\* of them gives a non-empty text.
C17_MessagePreference ==
  (handled /\ CarriesResponse(thrown))
    => /\ ~normalized.threw
       /\ normalized.message =
            IF PreferredMessage(thrown.response.data) # <<>>
            THEN PreferredMessage(thrown.response.data)
            ELSE getErrorMessage(normalized.code)

\* C17, as far as the code goes: the order holds whenever handleApiError
\* returns for a body that is an object with a text (or no) message, or no
\* body at all.
C17_MessageWhenReturned ==
  (handled /\ CarriesResponse(thrown) /\ ~normalized.threw
     /\ thrown.response.data.k \in {"obj", "undef"}
     /\ thrown.response.data.message.k # "num")
    => normalized.message =
         IF PreferredMessage(thrown.response.data) # <<>>
         THEN PreferredMessage(thrown.response.data)
         ELSE getErrorMessage(normalized.code)

\* detail is an array whose elements all are {loc, msg, type} with loc an
\* array of texts and msg and type texts.
WellFormedDetail(data) ==
  /\ data.k = "obj"
  /\ data.detail.k = "arr"
  /\ \A i \in 1..Len(data.detail.elems) :
       /\ data.detail.elems[i].k = "obj"
       /\ data.detail.elems[i].loc.k = "arr"
       /\ data.detail.elems[i].msg.k = "str"
       /\ data.detail.elems[i].type.k = "str"

\* C18: for a detail array of {loc, msg, type} fieldErrors has one entry per
\* element, in order, with field the tail of loc joined by dots, message the
\* msg and code the type; status 422 gives the kind validation-failed.
C18_FieldErrorsFromDetail ==
  (handled /\ CarriesResponse(thrown) /\ WellFormedDetail(thrown.response.data))
    => LET elems == thrown.response.data.detail.elems
           items == normalized.validationErrors.items
       IN /\ ~normalized.threw
          /\ normalized.validationErrors.k = "list"
          /\ Len(items) = Len(elems)
          /\ \A i \in 1..Len(elems) :
               /\ items[i].field = Join(Slice1(elems[i].loc.v), <<".">>)
               /\ items[i].message = elems[i].msg.v
               /\ items[i].code = elems[i].type
          /\ thrown.response.status = 422 => normalized.code = "VALIDATION_ERROR"

\* C18, as far as the code goes: whenever handleApiError returns, there is
\* one entry per element, in order, with code the type, field the dotted
\* tail of loc or "unknown" when the tail is empty, and message the msg or
\* "Validation error" when msg is empty.
C18_FieldErrorsWhenReturned ==
  (handled /\ CarriesResponse(thrown) /\ WellFormedDetail(thrown.response.data)
     /\ ~normalized.threw)
    => LET elems == thrown.response.data.detail.elems
           items == normalized.validationErrors.items
       IN /\ normalized.validationErrors.k = "list"
          /\ Len(items) = Len(elems)
          /\ \A i \in 1..Len(elems) :
               /\ items[i].field =
                    IF Len(elems[i].loc.v) > 1
                    THEN Join(Slice1(elems[i].loc.v), <<".">>)
                    ELSE <<"u", "n", "k", "n", "o", "w", "n">>
               /\ items[i].message =
                    IF elems[i].msg.v # <<>> THEN elems[i].msg.v
                    ELSE W_ValidationError
               /\ items[i].code = elems[i].type
          /\ thrown.response.status = 422 => normalized.code = "VALIDATION_ERROR"

\* C19: for a failure with a response correlationId is the x-request-id
\* header when present, else the x-correlation-id header when present, else
\* unset.
C19_CorrelationId ==
  (handled /\ CarriesResponse(thrown))
    => /\ ~normalized.threw
       /\ normalized.requestId =
            IF thrown.response.headers.rid # Undef
            THEN thrown.response.headers.rid
            ELSE thrown.response.headers.cid

\* C19, as far as the code goes: whenever handleApiError returns,
\* correlationId is the first of the two headers that is a non-empty text.
C19_CorrelationIdWhenReturned ==
  (handled /\ CarriesResponse(thrown) /\ ~normalized.threw)
    => normalized.requestId =
         IF thrown.response.headers.rid \notin {Undef, Str(<<>>)}
         THEN thrown.response.headers.rid
         ELSE thrown.response.headers.cid

\* C20: the normalized failure is retryable exactly when its kind is
\* network-unreachable, timeout, service-unavailable or upstream-error: so
\* for no-response failures and for status 429, 502, 503 and 504, and not
\* for cancellations, status 500 and the other kinds.
C20_Retryable ==
  (handled /\ (CancelSignal(thrown) \/ SentNoResponse(thrown) \/ CarriesResponse(thrown)))
    => /\ ~normalized.threw
       /\ isRetryable(normalized)
            <=> \/ SentNoResponse(thrown)
                \/ /\ CarriesResponse(thrown)
                   /\ thrown.response.status \in {429, 502, 503, 504}

\* C20, as far as the code goes: the same whenever handleApiError returns,
\* and isRetryable holds of exactly the four kinds.
C20_RetryableWhenReturned ==
  (handled /\ ~normalized.threw)
    => /\ isRetryable(normalized)
            <=> normalized.code \in {"NETWORK_ERROR", "TIMEOUT",
                                     "SERVICE_UNAVAILABLE", "BAD_GATEWAY"}
       /\ (CancelSignal(thrown) \/ SentNoResponse(thrown) \/ CarriesResponse(thrown))
            => (isRetryable(normalized)
                  <=> \/ SentNoResponse(thrown)
                      \/ /\ CarriesResponse(thrown)
                         /\ thrown.response.status \in {429, 502, 503, 504})

\* the text is one of the registry's messages
FromRegistry(text) == \E c \in DOMAIN ERROR_MESSAGES : ERROR_MESSAGES[c] = text

\* the text is what the response body of the failure gives as its message
FromBody(e, text) ==
  /\ e.response.present
  /\ text # <<>>
  /\ extractErrorMessage(e.response.data).k \in {"str", "num"}
  /\ text = extractErrorMessage(e.response.data).v

\* C21: for every failure the returned message is a non-empty text taken
\* from the server's response body or from the message registry, never the
\* transport library's own error text.
C21_NoTransportText ==
  handled
    => /\ ~normalized.threw
       /\ normalized.message # <<>>
       /\ FromRegistry(normalized.message) \/ FromBody(thrown, normalized.message)

\* C21, as far as the code goes: the message is from the body or the
\* registry whenever handleApiError returns for a cancellation, a failure
\* with a response or a failure whose request was sent.
C21_WhenResponseOrSent ==
  (handled /\ ~normalized.threw
     /\ (CancelSignal(thrown) \/ CarriesResponse(thrown) \/ SentNoResponse(thrown)))
    => /\ normalized.message # <<>>
       /\ FromRegistry(normalized.message) \/ FromBody(thrown, normalized.message)

\* Vocabulary of the claims about the response validator.
Matches == safeParse(schema, payload).success
Parsed == safeParse(schema, payload).data
SchemaError == safeParse(schema, payload).error

\* text is the dotted form of the path segs: its segments in order, each
\* array index in decimal, with a "." between neighbours.
SegmentText(seg) == IF seg.k = "index" THEN DecimalOf(seg.v[1]) ELSE seg.v[1]
Dotted(text, segs) ==
  /\ Len(text) = (IF Len(segs) = 0 THEN 0 ELSE 2 * Len(segs) - 1)
  /\ \A j \in 1..Len(segs) : text[2 * j - 1] = SegmentText(segs[j])
  /\ \A j \in 1..(Len(segs) - 1) : text[2 * j] = "."

\* C22: validate(schema, data) returns for every schema and input; a
\* successful outcome carries the parsed value and no issues, a failed one
\* carries no value and one {path, message, code} per schema issue, at least
\* one, with the path joined by dots.
C22_ValidateOutcome ==
  validated # <<>> =>
    /\ validated[1].success = Matches
    /\ validated[1].success =>
         /\ validated[1].keys = {"success", "data"}
         /\ validated[1].data = Parsed
         /\ Len(validated[1].issues) = 0
    /\ ~validated[1].success =>
         /\ "data" \notin validated[1].keys
         /\ "issues" \in validated[1].keys
         /\ Len(validated[1].issues) >= 1
         /\ Len(validated[1].issues) = Len(SchemaError.issues)
         /\ \A i \in 1..Len(validated[1].issues) :
              /\ validated[1].issues[i].code = SchemaError.issues[i].code
              /\ validated[1].issues[i].message = SchemaError.issues[i].message
              /\ Dotted(validated[1].issues[i].path, SchemaError.issues[i].path)

\* validate has reported the bad second id of a paginated list at "data.1".
C22_Witness ==
  /\ validated # <<>>
  /\ ~validated[1].success
  /\ \E i \in 1..Len(validated[1].issues) :
       /\ validated[1].issues[i].path = <<"data", ".", "1">>
       /\ validated[1].issues[i].code = "too_small"

\* C23: validateOrDefault returns the parsed data when the data matches the
\* schema and the fallback when it does not, and the fallback still is the
\* value the caller passed.
C23_ValidateOrDefault ==
  defaulted # <<>> =>
    /\ Matches => defaulted[1] = Parsed
    /\ ~Matches => defaulted[1] = defaultValue
    /\ defaultValue = DefaultFor(schema)

\* A malformed payload has been answered with the fallback.
C23_Witness ==
  /\ defaulted # <<>>
  /\ ~Matches
  /\ payload.k \notin {"undef", "null"}
  /\ defaulted[1] = DefaultFor(schema)

\* C24: a validator made by createResponseValidator returns the parsed value
\* on a match in both modes; on a mismatch it throws the schema error in
\* development and returns the input unchanged in production.
C24_ResponseValidator ==
  responded # <<>> =>
    /\ Matches => ~responded[1].threw /\ responded[1].value = Parsed
    /\ (~Matches /\ DEV) => responded[1].threw /\ responded[1].error = SchemaError
    /\ (~Matches /\ ~DEV) => ~responded[1].threw /\ responded[1].value = payload

\* A production validator has passed a mismatching object through.
C24_Witness ==
  /\ responded # <<>>
  /\ ~DEV
  /\ ~Matches
  /\ payload.k = "obj"
  /\ ~responded[1].threw
  /\ responded[1].value = payload

\* C25: in production every mismatch seen by such a validator emits exactly
\* one log entry.
C25_ProductionLogsOnce ==
  (responded # <<>> /\ ~DEV /\ ~Matches) => Len(responded[1].console) = 1

\* In development the mismatch is logged once before it is thrown.
C25_DevelopmentLogsOnce ==
  (responded # <<>> /\ DEV /\ ~Matches) =>
    /\ Len(responded[1].console) = 1
    /\ responded[1].threw

\* The 1-based positions of the batch whose items pass and fail the schema.
PassIdx == { i \in 1..Len(batch) : safeParse(schema, batch[i]).success }
FailIdx == (1..Len(batch)) \ PassIdx
\* The j-th smallest member of S.
Nth(S, j) == CHOOSE i \in S : Cardinality({ p \in S : p < i }) = j - 1

\* C26: validateArray puts every index of the input in exactly one of valid
\* and invalid: valid holds the parsed passing items in input order, invalid
\* holds index, data and error of each failing item in index order, and an
\* empty input gives two empty lists.
C26_Partition ==
  partitioned # <<>> =>
    /\ Len(partitioned[1].valid) + Len(partitioned[1].invalid) = Len(batch)
    /\ Len(partitioned[1].valid) = Cardinality(PassIdx)
    /\ \A j \in 1..Len(partitioned[1].valid) :
         partitioned[1].valid[j] = safeParse(schema, batch[Nth(PassIdx, j)]).data
    /\ \A j \in 1..Len(partitioned[1].invalid) :
         /\ partitioned[1].invalid[j].index = Nth(FailIdx, j) - 1
         /\ partitioned[1].invalid[j].data = batch[Nth(FailIdx, j)]
         /\ partitioned[1].invalid[j].error =
              safeParse(schema, batch[Nth(FailIdx, j)]).error
    /\ batch = <<>> => partitioned[1] = [valid |-> <<>>, invalid |-> <<>>]

\* [valid, invalid, valid] has been split into two valid items and the
\* invalid one at index 1.
C26_Witness ==
  /\ partitioned # <<>>
  /\ Len(batch) = 3
  /\ PassIdx = {1, 3}
  /\ Len(partitioned[1].valid) = 2
  /\ Len(partitioned[1].invalid) = 1
  /\ partitioned[1].invalid[1].index = 1

\* C27: validateArrayFilter returns exactly the valid list of validateArray.
C27_FilterIsValidPart ==
  /\ filtered # <<>> => filtered[1] = validateArray(schema, batch).valid
  /\ (filtered # <<>> /\ partitioned # <<>>) => filtered[1] = partitioned[1].valid

\* Both have run on a batch with a failing item and a passing item whose
\* parsed form differs from the input.
C27_Witness ==
  /\ filtered # <<>>
  /\ partitioned # <<>>
  /\ FailIdx # {}
  /\ \E i \in PassIdx : safeParse(schema, batch[i]).data # batch[i]
  /\ Len(filtered[1]) = Cardinality(PassIdx)

\* Vocabulary of the claims about the shared store.
\* This step is the response interceptor of r processing a 401/403 failure.
ClearingStep(r) ==
  /\ req[r].pc = "received"
  /\ req'[r].pc = "intercepted"
  /\ AuthFailure(req[r].outcome)

\* This step is the request interceptor of r.
OutgoingStep(r) == req[r].pc = "created" /\ req'[r].pc # "created"

\* The Authorization header is a bearer credential.
IsBearer(authorization) ==
  /\ authorization.k = "str"
  /\ Len(authorization.v) >= Len(W_Bearer)
  /\ SubSeq(authorization.v, 1, Len(W_Bearer)) = W_Bearer

\* C28: once the response interceptor has processed a 401/403 the store is
\* empty and stays empty until the next explicit login, and a request whose
\* request interceptor runs on the empty store is sent without a bearer
\* credential; the clearing step touches no other request and aborts none,
\* the requests on the wire keep the header they were sent with, and every
\* request that nobody cancelled delivers its own outcome.
C28_NoBearerAfterClear ==
  /\ [][\A r \in Requests :
          ClearingStep(r)
            => /\ token' = NoToken
               /\ cancelled' = cancelled
               /\ \A q \in Requests \ {r} : req'[q] = req[q]]_vars
  /\ [][(token = NoToken /\ token' # NoToken) => logins' = logins + 1]_vars
  /\ [][\A r \in Requests :
          (OutgoingStep(r) /\ token = NoToken)
            => /\ req'[r].authorization = req[r].callerAuth
               /\ ~IsBearer(req'[r].authorization)]_vars
  /\ [][\A r \in Requests :
          /\ (req[r].pc = "ready" /\ req'[r].pc = "sent")
               => req'[r].wireAuth = req'[r].authorization
          /\ req[r].pc \in {"sent", "received", "intercepted"}
               => req'[r].wireAuth = req[r].wireAuth]_vars
  /\ [](\A r \in Requests :
          (req[r].pc = "settled" /\ ~req[r].cancelCalled)
            => /\ req[r].outcome \in WireOutcomes
               /\ req[r].observed = req[r].outcome)

\* C28 witness: the first request was sent with the startup token and got a
\* 401; the second one, intercepted on the emptied store before any login,
\* is on the wire without an Authorization header.
C28_Witness ==
  /\ logins = 0
  /\ req[1].pc = "settled"
  /\ AuthFailure(req[1].outcome)
  /\ req[1].storeBefore = <<StartupToken, "profile">>
  /\ IsBearer(req[1].wireAuth)
  /\ req[2].pc = "sent"
  /\ req[2].tokenRead = NoToken
  /\ req[2].wireAuth = Undef

\* C29: the response interceptor empties the store on every 401/403, whatever
\* token is stored at that moment: a token installed by a login after the
\* failing request was sent is cleared, with its principal, as well.
C29_ClearsNewerToken ==
  \A r \in Requests :
    (Intercepted(r) /\ AuthFailure(req[r].outcome)
       /\ req[r].storeBefore[1] \notin {NoToken, req[r].tokenRead})
      => req[r].storeAfter = <<NoToken, "null">>

\* C29 witness: a request sent with the startup token failed with 401 after a
\* login had installed a new token, and the interceptor cleared the new one.
C29_Witness ==
  \E r \in Requests :
    /\ Intercepted(r)
    /\ AuthFailure(req[r].outcome)
    /\ req[r].tokenRead = StartupToken
    /\ IsBearer(req[r].wireAuth)
    /\ req[r].storeBefore = <<TokenOf(1), "profile">>
    /\ req[r].storeAfter = <<NoToken, "null">>

\* C30: the cancelToken of the request handed to the transport is the token
\* of the source made inside that call, never one the caller passed in config
\* or options, and the call's cancel handle cancels exactly that source.
C30_OwnCancelToken ==
  /\ [](\A r \in Requests :
          req[r].pc # "idle"
            => /\ Get(req[r].wire, "cancelToken") = CancelTokenOf(req[r].source)
               /\ Get(req[r].wire, "cancelToken") # CancelTokenOf(CallerSource)
               /\ Cardinality({ i \in 1..Len(req[r].wire.items) :
                                  req[r].wire.items[i].key = "cancelToken" }) = 1
               /\ req[r].cancelCalled
                    => \E s \in cancelled :
                         Get(req[r].wire, "cancelToken") = CancelTokenOf(s))
  /\ [][\A r \in Requests :
          (~req[r].cancelCalled /\ req'[r].cancelCalled)
            => \E s \in Requests :
                 /\ cancelled' = cancelled \cup {s}
                 /\ Get(req[r].wire, "cancelToken") = CancelTokenOf(s)]_vars

\* C30 witness: a caller passed its own cancelToken through options, the
\* request went out with the call's token, and the call's handle cancelled it
\* on the wire.
C30_Witness ==
  \E r \in Requests :
    /\ req[r].callerAuth = Str(TBasic)
    /\ Get(req[r].wire, "cancelToken") = CancelTokenOf(req[r].source)
    /\ req[r].cancelInFlight
    /\ req[r].outcome = Rejected(CanceledFailure)

====
